---------------------------- MODULE Spec2Model ----------------------------
(***************************************************************************)
(* A model of fetchfm's local-library deduplication engine: the text       *)
(* normalizer and similarity scorer (src/src/utils.py), the song index and *)
(* its reconciliation with the file system (src/src/db.py) and the         *)
(* verified download (src/src/download.py).                                *)
(*                                                                         *)
(* A Python string is a sequence of characters; a character is a one-      *)
(* element token: an ASCII character stands for itself, a non-ASCII code   *)
(* point is written by name ("eacute" is U+00E9, "endash" is U+2013).      *)
(* Strings hold no line break.  A float similarity is the exact fraction   *)
(* [num, den] that difflib divides; comparisons cross-multiply.            *)
(***************************************************************************)
EXTENDS Integers, Sequences, FiniteSets, TLC

(***************************************************************************)
(* Characters                                                              *)
(***************************************************************************)
UpperLetters ==
    <<"A","B","C","D","E","F","G","H","I","J","K","L","M",
      "N","O","P","Q","R","S","T","U","V","W","X","Y","Z","EACUTE","ATILDE">>

LowerLetters ==
    <<"a","b","c","d","e","f","g","h","i","j","k","l","m",
      "n","o","p","q","r","s","t","u","v","w","x","y","z","eacute","atilde">>

Digits == {"0","1","2","3","4","5","6","7","8","9"}

Range(f) == {f[i] : i \in DOMAIN f}

\* U+210C BLACK-LETTER CAPITAL H: a letter without a lower-case mapping
\* whose compatibility decomposition is the ASCII capital "H".
OtherLetters == {"fraktur_H"}

\* U+0301 COMBINING ACUTE ACCENT, U+0303 COMBINING TILDE
CombiningMarks == {"comb_acute", "comb_tilde"}

\* str.lower() of one character
LowerChar(c) ==
    IF \E i \in DOMAIN UpperLetters : UpperLetters[i] = c
    THEN LowerLetters[CHOOSE i \in DOMAIN UpperLetters : UpperLetters[i] = c]
    ELSE c

\* unicodedata.normalize("NFKD", c) of one character
NFKDChar(c) ==
    CASE c = "eacute"    -> <<"e", "comb_acute">>
      [] c = "EACUTE"    -> <<"E", "comb_acute">>
      [] c = "atilde"    -> <<"a", "comb_tilde">>
      [] c = "ATILDE"    -> <<"A", "comb_tilde">>
      [] c = "fraktur_H" -> <<"H">>
      [] c = "fw_lparen" -> <<"(">>
      [] c = "fw_rparen" -> <<")">>
      [] OTHER           -> <<c>>

\* unicodedata.combining(c) != 0
IsCombining(c) == c \in CombiningMarks

\* the regular-expression class \s
IsSpace(c) == c \in {" ", "tab"}

\* the regular-expression class \w (Unicode alphanumerics and the underscore)
IsWord(c) ==
    \/ c \in Range(UpperLetters) \cup Range(LowerLetters) \cup OtherLetters
    \/ c \in Digits
    \/ c = "_"

IsDash(c) == c \in {"-", "endash", "emdash"}

IsOpen(c) == c \in {"(", "["}

IsClose(c) == c \in {")", "]"}

(***************************************************************************)
(* Sequence helpers (Python slices are 0-based and half-open)              *)
(***************************************************************************)
Slice(s, lo, hi) == SubSeq(s, lo + 1, hi)

RECURSIVE Flatten(_)
Flatten(ss) == IF ss = <<>> THEN <<>> ELSE Head(ss) \o Flatten(Tail(ss))

\* does the literal word w occur in s at 0-based position k
StartsAt(s, k, w) ==
    /\ k + Len(w) <= Len(s)
    /\ \A i \in 1..Len(w) : s[k + i] = w[i]

\* position after the run of white space that starts at k
RECURSIVE SkipSpace(_, _)
SkipSpace(s, k) ==
    IF k < Len(s) /\ IsSpace(s[k + 1]) THEN SkipSpace(s, k + 1) ELSE k

(***************************************************************************)
(* normalize_text (src/src/utils.py)                                       *)
(***************************************************************************)
\* the alternatives of the first pattern's group; "feat\.?" and "ft\.?"
\* match wherever "feat" and "ft" do, and \d{4} is FourDigitsAt
VariantKeywords ==
    { <<"r","a","d","i","o">>,
      <<"e","d","i","t">>,
      <<"r","e","m","a","s","t","e","r">>,
      <<"l","i","v","e">>,
      <<"v","e","r","s","i","o","n">>,
      <<"r","e","m","i","x">>,
      <<"a","c","o","u","s","t","i","c">>,
      <<"f","e","a","t">>,
      <<"f","t">>,
      <<"b","o","n","u","s">>,
      <<"e","x","t","e","n","d","e","d">>,
      <<"s","i","n","g","l","e">>,
      <<"a","l","b","u","m">>,
      <<"o","r","i","g","i","n","a","l">>,
      <<"o","f","f","i","c","i","a","l">>,
      <<"v","i","d","e","o">>,
      <<"a","u","d","i","o">>,
      <<"h","d">>,
      <<"h","q">> }

\* the second pattern with the alternatives of the first one
SuffixKeywords_variants == VariantKeywords

\* the alternatives of the second pattern's group
SuffixKeywords ==
    { <<"r","e","m","a","s","t","e","r">>,
      <<"l","i","v","e">>,
      <<"a","c","o","u","s","t","i","c">>,
      <<"r","e","m","i","x">>,
      <<"a","o"," ","v","i","v","o">>,
      <<"r","e","m","a","s","t","e","r","i","z","a","d","o">> }

FourDigitsAt(s, k) ==
    /\ k + 4 <= Len(s)
    /\ \A i \in 1..4 : s[k + i] \in Digits

VariantAt(s, k) ==
    \/ \E w \in VariantKeywords : StartsAt(s, k, w)
    \/ FourDigitsAt(s, k)

\* text.lower()
lower(text) == [i \in 1..Len(text) |-> LowerChar(text[i])]

\* One match of  \s*[\(\[].*?(radio|...|\d{4}).*?[\)\]]  that starts at s:
\* the white space, an opening bracket, lazily anything up to the first
\* keyword, lazily anything up to the first closing bracket after it.
\* The result is the position after the match, or -1 when none starts at s.
VariantMatchEnd(text, s) ==
    LET o  == SkipSpace(text, s)
        ks == {k \in (o + 1)..(Len(text) - 1) : VariantAt(text, k)}
    IN  IF o >= Len(text) \/ ~IsOpen(text[o + 1]) \/ ks = {}
        THEN -1
        ELSE LET k  == CHOOSE x \in ks : \A y \in ks : x <= y
                 es == {e \in k..(Len(text) - 1) : IsClose(text[e + 1])}
             IN  IF es = {} THEN -1
                 ELSE (CHOOSE x \in es : \A y \in es : x <= y) + 1

\* re.sub of the first pattern by "": leftmost matches, left to right
RECURSIVE StripVariants(_, _)
StripVariants(text, pos) ==
    LET starts == {s \in pos..(Len(text) - 1) : VariantMatchEnd(text, s) # -1}
    IN  IF starts = {}
        THEN Slice(text, pos, Len(text))
        ELSE LET s == CHOOSE x \in starts : \A y \in starts : x <= y
             IN  Slice(text, pos, s) \o StripVariants(text, VariantMatchEnd(text, s))

\* does  \s*[-...]\s*(remaster|...|remasterizado).*$  match from s
SuffixMatchAt(text, s) ==
    LET o == SkipSpace(text, s)
    IN  /\ o < Len(text)
        /\ IsDash(text[o + 1])
        /\ \E w \in SuffixKeywords : StartsAt(text, SkipSpace(text, o + 1), w)

\* re.sub of the second pattern by "": the leftmost match runs to the end
StripSuffix(text) ==
    LET starts == {s \in 0..(Len(text) - 1) : SuffixMatchAt(text, s)}
    IN  IF starts = {}
        THEN text
        ELSE Slice(text, 0, CHOOSE x \in starts : \A y \in starts : x <= y)

\* unicodedata.normalize("NFKD", text), then the combining marks dropped
StripAccents(text) ==
    SelectSeq(Flatten([i \in 1..Len(text) |-> NFKDChar(text[i])]),
              LAMBDA c : ~IsCombining(c))

\* re.sub(r"[^\w\s]", " ", text)
ReplacePunctuation(text) ==
    [i \in 1..Len(text) |->
        IF IsWord(text[i]) \/ IsSpace(text[i]) THEN text[i] ELSE " "]

\* " ".join(text.split())
RECURSIVE CollapseSpaces(_)
CollapseSpaces(text) ==
    LET k == SkipSpace(text, 0)
        ws == {e \in k..(Len(text) - 1) : IsSpace(text[e + 1])}
    IN  IF k >= Len(text) THEN <<>>
        ELSE IF ws = {} THEN Slice(text, k, Len(text))
        ELSE LET e == CHOOSE x \in ws : \A y \in ws : x <= y
                 rest == CollapseSpaces(Slice(text, e, Len(text)))
             IN  IF rest = <<>> THEN Slice(text, k, e)
                 ELSE Slice(text, k, e) \o <<" ">> \o rest

normalize_text(text) ==
    IF text = <<>> THEN <<>>
    ELSE CollapseSpaces(
            ReplacePunctuation(
                StripAccents(
                    StripSuffix(
                        StripVariants(lower(text), 0)))))

(***************************************************************************)
(* similarity (src/src/utils.py): difflib.SequenceMatcher(None, a, b)      *)
(***************************************************************************)
\* length of the common run of a[i:ahi] and b[j:bhi]
RECURSIVE RunLen(_, _, _, _, _, _)
RunLen(a, b, i, j, ahi, bhi) ==
    IF i < ahi /\ j < bhi /\ a[i + 1] = b[j + 1]
    THEN 1 + RunLen(a, b, i + 1, j + 1, ahi, bhi)
    ELSE 0

\* SequenceMatcher.find_longest_match: the longest block common to
\* a[alo:ahi] and b[blo:bhi]; of the longest ones the one that starts
\* earliest in a, and of those the one that starts earliest in b.
find_longest_match(a, b, alo, ahi, blo, bhi) ==
    LET cand  == (alo..(ahi - 1)) \X (blo..(bhi - 1))
        sizes == {RunLen(a, b, p[1], p[2], ahi, bhi) : p \in cand}
        k     == CHOOSE x \in sizes : \A y \in sizes : y <= x
        best  == {p \in cand : RunLen(a, b, p[1], p[2], ahi, bhi) = k}
        first == CHOOSE p \in best : \A q \in best :
                        \/ p[1] < q[1]
                        \/ p[1] = q[1] /\ p[2] <= q[2]
    IN  IF cand = {} THEN <<alo, blo, 0>>
        ELSE IF k = 0 THEN <<alo, blo, 0>>
        ELSE <<first[1], first[2], k>>

\* SequenceMatcher.get_matching_blocks, summed: the block, then the pieces
\* to its left and to its right
RECURSIVE MatchingChars(_, _, _, _, _, _)
MatchingChars(a, b, alo, ahi, blo, bhi) ==
    LET m == find_longest_match(a, b, alo, ahi, blo, bhi)
        i == m[1]
        j == m[2]
        k == m[3]
    IN  IF k = 0 THEN 0
        ELSE k
             + (IF alo < i /\ blo < j
                THEN MatchingChars(a, b, alo, i, blo, j) ELSE 0)
             + (IF i + k < ahi /\ j + k < bhi
                THEN MatchingChars(a, b, i + k, ahi, j + k, bhi) ELSE 0)

\* the ratio without the case of two empty strings: 0 for no characters
similarity_empty(s1, s2) ==
    LET length == Len(s1) + Len(s2)
    IN  IF length = 0 THEN [num |-> 0, den |-> 1]
        ELSE [num |-> 2 * MatchingChars(s1, s2, 0, Len(s1), 0, Len(s2)),
              den |-> length]

\* SequenceMatcher.ratio(): 2.0 * matches / length, 1.0 for two empty strings
similarity(s1, s2) ==
    LET length == Len(s1) + Len(s2)
    IN  IF length = 0 THEN [num |-> 1, den |-> 1]
        ELSE [num |-> 2 * MatchingChars(s1, s2, 0, Len(s1), 0, Len(s2)),
              den |-> length]

\* comparisons and arithmetic of the fractions that stand for floats
Lt(x, y) == x.num * y.den < y.num * x.den

Geq(x, y) == ~Lt(x, y)

Gt(x, y) == Lt(y, x)

Eq(x, y) == x.num * y.den = y.num * x.den

Zero == [num |-> 0, den |-> 1]

(***************************************************************************)
(* Configuration (src/src/config.py, src/src/download.py)                  *)
(***************************************************************************)
\* SIMILARITY_THRESHOLD = 0.70
SIMILARITY_THRESHOLD == [num |-> 70, den |-> 100]

\* the default of find_match_by_title's parameter threshold: 0.80
TITLE_ONLY_THRESHOLD == [num |-> 80, den |-> 100]

\* ARTIST_THRESHOLD = 0.5, TITLE_THRESHOLD = 0.5, TITLE_HIGH_THRESHOLD = 0.8
ARTIST_THRESHOLD == [num |-> 5, den |-> 10]

TITLE_THRESHOLD == [num |-> 5, den |-> 10]

TITLE_HIGH_THRESHOLD == [num |-> 8, den |-> 10]

AUDIO_EXTENSIONS == {".mp3", ".flac", ".m4a", ".ogg", ".opus", ".wav", ".wma"}

\* ext.upper() of a configured extension
ExtUpper(ext) ==
    CASE ext = ".mp3"  -> ".MP3"
      [] ext = ".flac" -> ".FLAC"
      [] ext = ".m4a"  -> ".M4A"
      [] ext = ".ogg"  -> ".OGG"
      [] ext = ".opus" -> ".OPUS"
      [] ext = ".wav"  -> ".WAV"
      [] ext = ".wma"  -> ".WMA"

\* the configured extension a file suffix equals when letter case is
\* ignored, or the suffix itself
ExtFold(suffix) ==
    CASE suffix \in {".mp3", ".MP3", ".Mp3"}  -> ".mp3"
      [] suffix \in {".flac", ".FLAC"}        -> ".flac"
      [] OTHER                                -> suffix

(***************************************************************************)
(* get_song_metadata (src/src/db.py)                                       *)
(***************************************************************************)
\* str.strip()
RECURSIVE RStrip(_)
RStrip(s) ==
    IF s # <<>> /\ IsSpace(s[Len(s)]) THEN RStrip(Slice(s, 0, Len(s) - 1)) ELSE s

Strip(s) == RStrip(Slice(s, SkipSpace(s, 0), Len(s)))

\* re.sub(r"^\d+[\s.\-_]+", "", name): the leading digits and the
\* separators that follow them
IsTrackSep(c) == IsSpace(c) \/ c \in {".", "-", "_"}

\* position after the run of digits that starts at k
RECURSIVE SkipDigits(_, _)
SkipDigits(s, k) ==
    IF k < Len(s) /\ s[k + 1] \in Digits THEN SkipDigits(s, k + 1) ELSE k

\* position after the run of separators that starts at k
RECURSIVE SkipTrackSeps(_, _)
SkipTrackSeps(s, k) ==
    IF k < Len(s) /\ IsTrackSep(s[k + 1]) THEN SkipTrackSeps(s, k + 1) ELSE k

\* the digits stripped with or without a separator after them
StripTrackNumber_digits(name) ==
    LET d == SkipDigits(name, 0)
        e == SkipTrackSeps(name, d)
    IN  IF d > 0 THEN Slice(name, e, Len(name)) ELSE name

StripTrackNumber(name) ==
    LET d == SkipDigits(name, 0)
        e == SkipTrackSeps(name, d)
    IN  IF d > 0 /\ e > d THEN Slice(name, e, Len(name)) ELSE name

\* re.match(r"^(.+?)\s+[-...]\s+(.+)$", name): the ends e of group 1 after
\* which come white space, a dash, white space and at least one character
ArtistTitleSplits(name) ==
    {e \in 1..(Len(name) - 1) :
        LET r == SkipSpace(name, e)
        IN  /\ r > e
            /\ r < Len(name)
            /\ IsDash(name[r + 1])
            /\ r + 3 <= Len(name)
            /\ IsSpace(name[r + 2])}

\* MutagenFile(filepath, easy=True) and the tag reads, guarded by
\* try/except: tags.readable is FALSE when the read raises or yields None;
\* a tag is the list mutagen returns for its key, empty when absent
get_song_metadata(filepath, tags) ==
    LET first(l) == IF l = <<>> THEN <<>> ELSE l[1]
        artist0 ==
            IF ~tags.readable THEN <<>>
            ELSE IF tags.artist # <<>> THEN first(tags.artist)
            ELSE first(tags.albumartist)
        title0 == IF ~tags.readable THEN <<>> ELSE first(tags.title)
        name   == StripTrackNumber(filepath.stem)
        splits == ArtistTitleSplits(name)
        e      == CHOOSE x \in splits : \A y \in splits : x <= y
        r      == SkipSpace(name, e)
        artist1 ==
            IF title0 = <<>> /\ splits # {} /\ artist0 = <<>>
            THEN Strip(Slice(name, 0, e))
            ELSE artist0
        title1 ==
            IF title0 # <<>> THEN title0
            ELSE IF splits # {} THEN Strip(Slice(name, r + 1, Len(name)))
            ELSE name
    IN  [artist |-> IF artist1 = <<>> THEN filepath.parent ELSE artist1,
         title  |-> title1]

(***************************************************************************)
(* Bounds and sample data                                                  *)
(***************************************************************************)
\* file modification times are 1..MaxMtime
MaxMtime == 2

\* changes made to the music directory in one behaviour
MaxFsOps == 2

\* runs of the program (one connection, one reconcile pass each)
MaxRuns == 2

\* rows of an index drawn for the lookups
MaxRows == 2

None == [found |-> FALSE]

Abba == <<"A","b","b","a">>

ABBA == <<"A","B","B","A">>

Abby == <<"A","b","b","y">>

Blur == <<"B","l","u","r">>

Song == <<"S","o","n","g">>

SongLive == <<"S","o","n","g"," ","(","L","i","v","e",")">>

Sons == <<"S","o","n","s">>

Songs == <<"S","o","n","g","s">>

Sings == <<"S","i","n","g","s">>

Abcd == <<"A","b","c","d">>

Cafe == <<"C","a","f","eacute">>

\* the files of the music directory: Path.parent.name, Path.stem and
\* Path.suffix of each path
PathInfo ==
    [p1 |-> [parent |-> Abba, stem |-> <<"0","1"," ","-"," ","S","o","n","g">>, suffix |-> ".mp3"],
     p2 |-> [parent |-> Blur, stem |-> Cafe, suffix |-> ".FLAC"],
     p3 |-> [parent |-> Abba, stem |-> Songs, suffix |-> ".Mp3"],
     p4 |-> [parent |-> Abba, stem |-> <<"c","o","v","e","r">>, suffix |-> ".jpg"]]

\* the paths at which files come and go between the runs
Paths == {"p1", "p2"}

\* what mutagen reads from a file
TagSamples ==
    { [readable |-> TRUE, artist |-> <<ABBA>>, albumartist |-> <<>>,
       title |-> <<SongLive>>],
      [readable |-> FALSE, artist |-> <<>>, albumartist |-> <<>>,
       title |-> <<>>] }

Files == [mtime : 1..MaxMtime, tags : TagSamples]

NoFile == [mtime |-> 0]

\* the (artist, title) pairs looked up
Queries ==
    { <<Abba, Song>>, <<Abby, SongLive>>, <<Blur, Song>>, <<Abba, Sons>>,
      <<Blur, Cafe>>, <<Abba, Songs>> }

\* the pairs looked up after a reconcile pass
RunQueries == { <<Abba, Song>>, <<Blur, Cafe>> }

\* the (artist, title) pairs of the rows of a drawn index
RowSamples ==
    { <<Abba, Song>>, <<ABBA, SongLive>>, <<Abby, Song>>, <<Abba, Sings>>,
      <<Abby, Songs>>, <<Blur, Cafe>> }

(***************************************************************************)
(* State                                                                   *)
(***************************************************************************)
VARIABLES
    fs,              \* the music directory: path -> file, NoFile when absent
    caseInsensitive, \* whether Path.rglob matches names ignoring case
    db,              \* table songs as the open connection sees it, by rowid
    committed,       \* table songs as committed to the database file
    pc,              \* "closed", "scan" (in scan_music_library), "open"
    force,           \* scan_music_library: parameter force
    audio_files,     \* scan_music_library: the enumerated files
    existing_paths,  \* scan_music_library: the set of their paths
    indexed,         \* scan_music_library: path -> mtime read before the loop
    pos,             \* scan_music_library: files of audio_files handled
    added,           \* scan_music_library: counter added
    total,           \* the value the last completed pass returned
    extracted,       \* paths given to get_song_metadata in the current pass
    commits,         \* commits made since the current pass started
    prev,            \* the pass before the current one, for comparison
    dirty,           \* a file changed since the current pass enumerated
    lookup,          \* the last find_match / find_match_by_title call
    fsOps,           \* changes made to the music directory so far
    runs,            \* runs started so far
    exc,             \* the exception that ended the last run, or "none"
    dl,              \* one call of download_with_spotdl
    nz,              \* normalize_text applied to a drawn text, then again
    sm,              \* similarity applied to a drawn pair, both ways
    md,              \* get_song_metadata applied to a drawn file
    ann,             \* one call of check_local_matches
    mn,              \* main: the arguments and the position of the run
    ui,              \* one call of interactive_select
    en,              \* one call of enrich_database_with_tags
    artist_tags      \* table artist_tags: artist_norm -> tags

scanVars == <<force, audio_files, existing_paths, indexed, pos, added, total,
              extracted, commits, prev>>

indexVars == <<fs, caseInsensitive, db, committed, pc, force, audio_files,
               existing_paths, indexed, pos, added, total, extracted, commits,
               prev, dirty, lookup, fsOps, runs, exc>>

\* the variables the library index does not touch
otherVars == <<dl, nz, sm, md, ann, mn, ui, en, artist_tags>>

\* what a download, a normalization and a comparison leave alone
dlFrame == <<indexVars, nz, sm, md, ann, mn, ui, en, artist_tags>>

nzFrame == <<indexVars, dl, sm, md, ann, mn, ui, en, artist_tags>>

smFrame == <<indexVars, dl, nz, md, ann, mn, ui, en, artist_tags>>

\* what an extraction and an annotation leave alone
mdFrame == <<indexVars, dl, nz, sm, ann, mn, ui, en, artist_tags>>

annFrame == <<indexVars, dl, nz, sm, md, mn, ui, en, artist_tags>>

\* what a key press in the selector and a step of the enrichment leave alone
uiFrame == <<indexVars, dl, nz, sm, md, ann, mn, en, artist_tags>>

enFrame == <<indexVars, dl, nz, sm, md, ann, mn, ui>>

vars == <<indexVars, otherVars>>

NoLookup == [kind |-> "none"]

NoPrev == [completed |-> FALSE, total |-> -1, clean |-> FALSE, rows |-> <<>>]

\* the locals of scan_music_library are dead once the run has ended
ScanReturned ==
    /\ force' = FALSE
    /\ audio_files' = <<>>
    /\ existing_paths' = {}
    /\ indexed' = <<>>
    /\ pos' = 0
    /\ added' = 0
    /\ extracted' = <<>>
    /\ commits' = 0
    /\ prev' = NoPrev

(***************************************************************************)
(* SongDatabase (src/src/db.py)                                            *)
(***************************************************************************)
\* add_song with the normalized title left out: the title is stored as is
add_song_raw(rows, path, artist, title, mtime) ==
    SelectSeq(rows, LAMBDA r : r.path # path)
    \o << [path |-> path, artist |-> artist,
           artist_norm |-> normalize_text(artist),
           title |-> title, title_norm |-> title, mtime |-> mtime] >>

\* add_song as a plain INSERT: the row of the same path is kept
add_song_dup(rows, path, artist, title, mtime) ==
    rows
    \o << [path |-> path, artist |-> artist,
           artist_norm |-> normalize_text(artist), title |-> title,
           title_norm |-> normalize_text(title), mtime |-> mtime] >>

\* INSERT OR REPLACE INTO songs: the row of the same path is deleted and
\* the new row gets the next rowid
add_song(rows, path, artist, title, mtime) ==
    SelectSeq(rows, LAMBDA r : r.path # path)
    \o << [path |-> path, artist |-> artist, artist_norm |-> normalize_text(artist),
           title |-> title, title_norm |-> normalize_text(title), mtime |-> mtime] >>

get_all_paths(rows) == {rows[i].path : i \in DOMAIN rows}

\* remove_missing that deletes nothing
remove_missing_none(rows, existing) == rows

\* DELETE FROM songs WHERE path IN (db_paths - existing_paths)
remove_missing(rows, existing) ==
    LET missing == get_all_paths(rows) \ existing
    IN  SelectSeq(rows, LAMBDA r : r.path \notin missing)

get_song_count(rows) == Len(rows)

\* the loop of find_match with >= against the running best
RECURSIVE FindMatchLoop_ge(_, _, _, _, _, _)
FindMatchLoop_ge(rows, k, artist_norm, title_norm, best_match, best_score) ==
    IF k > Len(rows) THEN best_match
    ELSE
        LET row        == rows[k]
            artist_sim == similarity(artist_norm, row.artist_norm)
            title_sim  == similarity(title_norm, row.title_norm)
            score      == [num |-> 3 * artist_sim.num * title_sim.den
                                   + 7 * title_sim.num * artist_sim.den,
                           den |-> 10 * artist_sim.den * title_sim.den]
        IN  IF Lt(artist_sim, SIMILARITY_THRESHOLD)
               \/ Lt(title_sim, SIMILARITY_THRESHOLD)
               \/ ~Geq(score, best_score)
            THEN FindMatchLoop_ge(rows, k + 1, artist_norm, title_norm,
                                  best_match, best_score)
            ELSE FindMatchLoop_ge(rows, k + 1, artist_norm, title_norm,
                                  [found |-> TRUE, path |-> row.path,
                                   artist |-> row.artist, title |-> row.title,
                                   score |-> score],
                                  score)

\* the loop of find_match over rows[k..], with the running best
RECURSIVE FindMatchLoop(_, _, _, _, _, _)
FindMatchLoop(rows, k, artist_norm, title_norm, best_match, best_score) ==
    IF k > Len(rows) THEN best_match
    ELSE
        LET row        == rows[k]
            artist_sim == similarity(artist_norm, row.artist_norm)
            title_sim  == similarity(title_norm, row.title_norm)
            score      == [num |-> 3 * artist_sim.num * title_sim.den
                                   + 7 * title_sim.num * artist_sim.den,
                           den |-> 10 * artist_sim.den * title_sim.den]
        IN  IF Lt(artist_sim, SIMILARITY_THRESHOLD)
            THEN FindMatchLoop(rows, k + 1, artist_norm, title_norm,
                               best_match, best_score)
            ELSE IF Lt(title_sim, SIMILARITY_THRESHOLD)
            THEN FindMatchLoop(rows, k + 1, artist_norm, title_norm,
                               best_match, best_score)
            ELSE IF Gt(score, best_score)
            THEN FindMatchLoop(rows, k + 1, artist_norm, title_norm,
                               [found |-> TRUE, path |-> row.path,
                                artist |-> row.artist, title |-> row.title,
                                score |-> score],
                               score)
            ELSE FindMatchLoop(rows, k + 1, artist_norm, title_norm,
                               best_match, best_score)

find_match(rows, artist, title) ==
    FindMatchLoop(rows, 1, normalize_text(artist), normalize_text(title), None, Zero)

\* the loop of find_match_by_title over rows[k..]
RECURSIVE FindTitleLoop(_, _, _, _, _, _)
FindTitleLoop(rows, k, title_norm, threshold, best_match, best_score) ==
    IF k > Len(rows) THEN best_match
    ELSE
        LET row       == rows[k]
            title_sim == similarity(title_norm, row.title_norm)
        IN  IF Lt(title_sim, threshold)
            THEN FindTitleLoop(rows, k + 1, title_norm, threshold,
                               best_match, best_score)
            ELSE IF Gt(title_sim, best_score)
            THEN FindTitleLoop(rows, k + 1, title_norm, threshold,
                               [found |-> TRUE, path |-> row.path,
                                artist |-> row.artist, title |-> row.title,
                                score |-> title_sim],
                               title_sim)
            ELSE FindTitleLoop(rows, k + 1, title_norm, threshold,
                               best_match, best_score)

\* find_match_by_title with the threshold of find_match
find_match_by_title_low(rows, title) ==
    FindTitleLoop(rows, 1, normalize_text(title), SIMILARITY_THRESHOLD, None,
                  Zero)

find_match_by_title(rows, title) ==
    FindTitleLoop(rows, 1, normalize_text(title), TITLE_ONLY_THRESHOLD, None, Zero)

(***************************************************************************)
(* scan_music_library (src/src/db.py)                                      *)
(***************************************************************************)
\* the orders in which a directory walk can list the files present
Orders(S) ==
    {o \in [1..Cardinality(S) -> S] : \A i, j \in DOMAIN o : o[i] = o[j] => i = j}

Present(files) == {p \in DOMAIN files : files[p] # NoFile}

\* music_dir.rglob("*" + pattern) over the listing order
rglob(order, pattern, ci) ==
    SelectSeq(order,
              LAMBDA p : IF ci THEN ExtFold(PathInfo[p].suffix) = ExtFold(pattern)
                         ELSE PathInfo[p].suffix = pattern)

\* for ext in AUDIO_EXTENSIONS: rglob(*ext), then rglob(*ext.upper()); the
\* set is iterated in the order in which rest first shows each extension
RECURSIVE EnumerateFrom(_, _, _, _)
EnumerateFrom(rest, order, done, ci) ==
    IF rest = <<>> THEN <<>>
    ELSE LET ext == ExtFold(PathInfo[Head(rest)].suffix)
         IN  IF ext \in done \/ ext \notin AUDIO_EXTENSIONS
             THEN EnumerateFrom(Tail(rest), order, done, ci)
             ELSE rglob(order, ext, ci) \o rglob(order, ExtUpper(ext), ci)
                  \o EnumerateFrom(Tail(rest), order, done \cup {ext}, ci)

Enumerate(order, ci) == EnumerateFrom(order, order, {}, ci)

\* no skip test: every enumerated file is read again in every pass
NeedsUpdate_always(forced, idx, path, mtime) == TRUE

\* the skip test with > for >=: an unchanged file is read again
NeedsUpdate_gt(forced, idx, path, mtime) ==
    ~(~forced /\ path \in DOMAIN idx /\ idx[path] > mtime)

\* the skip test with = for >=: a file with an older mtime is read again
NeedsUpdate_ne(forced, idx, path, mtime) ==
    ~(~forced /\ path \in DOMAIN idx /\ idx[path] = mtime)

\* the negation of the test that skips a file in the loop
NeedsUpdate(forced, idx, path, mtime) ==
    ~(~forced /\ path \in DOMAIN idx /\ idx[path] >= mtime)

\* SongDatabase() and scan_music_library up to its loop: the files are
\* enumerated, the rows of vanished files deleted, the stored mtimes read
ScanStart(forced, order) ==
    /\ pc = "closed"
    /\ runs < MaxRuns
    /\ runs' = runs + 1
    /\ pc' = "scan"
    /\ force' = forced
    /\ audio_files' = Enumerate(order, caseInsensitive)
    /\ existing_paths' = Range(audio_files')
    /\ db' = remove_missing(committed, existing_paths')
    /\ indexed' = [p \in get_all_paths(db') |->
                     db'[CHOOSE i \in DOMAIN db' : db'[i].path = p].mtime]
    /\ pos' = 0
    /\ added' = 0
    /\ extracted' = <<>>
    /\ commits' = 0
    /\ total' = -1
    /\ prev' = [completed |-> total # -1, total |-> total,
                clean |-> total # -1 /\ ~dirty, rows |-> committed]
    /\ dirty' = FALSE
    /\ exc' = "none"
    /\ UNCHANGED <<fs, caseInsensitive, committed, lookup, fsOps>>
    /\ UNCHANGED otherVars

\* the loop iteration with a commit after each add_song
ScanFile_autocommit ==
    /\ pc = "scan"
    /\ pos < Len(audio_files)
    /\ LET path == audio_files[pos + 1]
       IN  IF fs[path] = NoFile
           THEN /\ pc' = "closed"
                /\ db' = committed
                /\ exc' = "FileNotFoundError"
                /\ ScanReturned
                /\ UNCHANGED committed
           ELSE LET mtime == fs[path].mtime
                    meta  == get_song_metadata(PathInfo[path], fs[path].tags)
                IN  /\ pc' = "scan"
                    /\ pos' = pos + 1
                    /\ IF NeedsUpdate(force, indexed, path, mtime)
                       THEN /\ db' = add_song(db, path, meta.artist,
                                              meta.title, mtime)
                            /\ committed' = db'
                            /\ added' = added + 1
                            /\ extracted' = Append(extracted, path)
                       ELSE UNCHANGED <<db, committed, added, extracted>>
                    /\ UNCHANGED <<force, audio_files, existing_paths,
                                   indexed, commits, prev, exc>>
    /\ UNCHANGED <<fs, caseInsensitive, total, dirty, lookup, fsOps, runs>>
    /\ UNCHANGED otherVars

\* one iteration of the loop over audio_files; filepath.stat() raises when
\* the file is gone, which ends the run with the transaction uncommitted
\* the loop iteration without the try/except of get_song_metadata: the
\* error of MutagenFile on an unreadable file ends the pass
ScanFile_tagerror ==
    /\ pc = "scan"
    /\ pos < Len(audio_files)
    /\ LET path == audio_files[pos + 1]
       IN  IF fs[path] = NoFile
           THEN /\ pc' = "closed"
                /\ db' = committed
                /\ exc' = "FileNotFoundError"
                /\ ScanReturned
           ELSE LET mtime == fs[path].mtime
                    meta  == get_song_metadata(PathInfo[path], fs[path].tags)
                IN  IF NeedsUpdate(force, indexed, path, mtime)
                       /\ ~fs[path].tags.readable
                    THEN /\ pc' = "closed"
                         /\ db' = committed
                         /\ exc' = "MutagenError"
                         /\ ScanReturned
                    ELSE /\ pc' = "scan"
                         /\ pos' = pos + 1
                         /\ IF NeedsUpdate(force, indexed, path, mtime)
                            THEN /\ db' = add_song(db, path, meta.artist,
                                                   meta.title, mtime)
                                 /\ added' = added + 1
                                 /\ extracted' = Append(extracted, path)
                            ELSE UNCHANGED <<db, added, extracted>>
                         /\ UNCHANGED <<force, audio_files, existing_paths,
                                        indexed, commits, prev, exc>>
    /\ UNCHANGED <<fs, caseInsensitive, committed, total, dirty, lookup,
                   fsOps, runs>>
    /\ UNCHANGED otherVars

ScanFile ==
    /\ pc = "scan"
    /\ pos < Len(audio_files)
    /\ LET path == audio_files[pos + 1]
       IN  IF fs[path] = NoFile
           THEN /\ pc' = "closed"
                /\ db' = committed
                /\ exc' = "FileNotFoundError"
                /\ ScanReturned
           ELSE LET mtime == fs[path].mtime
                    meta  == get_song_metadata(PathInfo[path], fs[path].tags)
                IN  /\ pc' = "scan"
                    /\ pos' = pos + 1
                    /\ IF NeedsUpdate(force, indexed, path, mtime)
                       THEN /\ db' = add_song(db, path, meta.artist,
                                              meta.title, mtime)
                            /\ added' = added + 1
                            /\ extracted' = Append(extracted, path)
                       ELSE UNCHANGED <<db, added, extracted>>
                    /\ UNCHANGED <<force, audio_files, existing_paths,
                                   indexed, commits, prev, exc>>
    /\ UNCHANGED <<fs, caseInsensitive, committed, total, dirty, lookup,
                   fsOps, runs>>
    /\ UNCHANGED otherVars

\* db.commit() and the count returned, after the loop
ScanCommit ==
    /\ pc = "scan"
    /\ pos = Len(audio_files)
    /\ committed' = db
    /\ commits' = commits + 1
    /\ total' = get_song_count(db)
    /\ pc' = "open"
    /\ UNCHANGED <<fs, caseInsensitive, db, force, audio_files,
                   existing_paths, indexed, pos, added, extracted, prev,
                   dirty, lookup, fsOps, runs, exc>>
    /\ UNCHANGED otherVars

\* the process is interrupted during the pass: nothing was committed
Interrupt ==
    /\ pc = "scan"
    /\ pc' = "closed"
    /\ db' = committed
    /\ exc' = "KeyboardInterrupt"
    /\ ScanReturned
    /\ UNCHANGED <<fs, caseInsensitive, committed, total, dirty, lookup,
                   fsOps, runs>>
    /\ UNCHANGED otherVars

\* db.find_match(artist, title) on the open connection
FindMatch(artist, title) ==
    /\ pc = "open"
    /\ lookup' = [kind |-> "find_match", artist |-> artist, title |-> title,
                  result |-> find_match(db, artist, title)]
    /\ UNCHANGED <<fs, caseInsensitive, db, committed, pc, scanVars, dirty,
                   fsOps, runs, exc>>
    /\ UNCHANGED otherVars

\* db.find_match_by_title(title) on the open connection
FindMatchByTitle(artist, title) ==
    /\ pc = "open"
    /\ lookup' = [kind |-> "find_match_by_title", artist |-> artist,
                  title |-> title, result |-> find_match_by_title(db, title)]
    /\ UNCHANGED <<fs, caseInsensitive, db, committed, pc, scanVars, dirty,
                   fsOps, runs, exc>>
    /\ UNCHANGED otherVars

\* db.close(), the end of the run
Close ==
    /\ pc = "open"
    /\ pc' = "closed"
    /\ lookup' = NoLookup
    /\ ScanReturned
    /\ UNCHANGED <<fs, caseInsensitive, db, committed, total, dirty, fsOps,
                   runs, exc>>
    /\ UNCHANGED otherVars

(***************************************************************************)
(* The music directory changes under the program.  A lookup and close()   *)
(* do not read the directory, so a change made while the connection is    *)
(* open has the effect of the same change made right after close().       *)
(***************************************************************************)
\* a file is created, or rewritten with other tags or another mtime
WriteFile(p, f) ==
    /\ pc # "open"
    /\ fsOps < MaxFsOps
    /\ fs[p] # f
    /\ fs' = [fs EXCEPT ![p] = f]
    /\ dirty' = TRUE
    /\ fsOps' = fsOps + 1
    /\ UNCHANGED <<caseInsensitive, db, committed, pc, scanVars, lookup, runs,
                   exc>>
    /\ UNCHANGED otherVars

RemoveFile(p) ==
    /\ pc # "open"
    /\ fsOps < MaxFsOps
    /\ fs[p] # NoFile
    /\ fs' = [fs EXCEPT ![p] = NoFile]
    /\ dirty' = TRUE
    /\ fsOps' = fsOps + 1
    /\ UNCHANGED <<caseInsensitive, db, committed, pc, scanVars, lookup, runs,
                   exc>>
    /\ UNCHANGED otherVars

RenameFile(p, q) ==
    /\ pc # "open"
    /\ fsOps < MaxFsOps
    /\ p # q
    /\ fs[p] # NoFile
    /\ fs[q] = NoFile
    /\ fs' = [fs EXCEPT ![q] = fs[p], ![p] = NoFile]
    /\ dirty' = TRUE
    /\ fsOps' = fsOps + 1
    /\ UNCHANGED <<caseInsensitive, db, committed, pc, scanVars, lookup, runs,
                   exc>>
    /\ UNCHANGED otherVars

(***************************************************************************)
(* Verified download (src/src/download.py)                                 *)
(***************************************************************************)
\* the (artist, track) pairs asked for
Requests == { <<Abba, Song>>, <<Abba, Songs>>, <<Blur, Cafe>> }

\* what "spotdl save" resolves a query to; url "" is a track without url
Resolutions ==
    [artist : {ABBA, Abby, Abcd, Blur}, name : {SongLive, Sons, Sings, Cafe},
     url : {"", "url"}]

NoMatch == [artist |-> <<>>, name |-> <<>>, url |-> "none"]

NoVerdict == [is_match |-> FALSE, artist_sim |-> Zero, title_sim |-> Zero,
              made |-> FALSE]

DlIdle == [pc |-> "idle", artist |-> <<>>, track |-> <<>>, match |-> NoMatch,
           verdict |-> NoVerdict, cmds |-> <<>>, result |-> FALSE]

\* is_good_match without the acceptance on an excellent title alone
is_good_match_strict(req_artist, req_title, match_artist, match_title) ==
    LET artist_sim == similarity(normalize_text(req_artist),
                                 normalize_text(match_artist))
        title_sim  == similarity(normalize_text(req_title),
                                 normalize_text(match_title))
    IN  [is_match |-> Geq(artist_sim, ARTIST_THRESHOLD)
                      /\ Geq(title_sim, TITLE_THRESHOLD),
         artist_sim |-> artist_sim, title_sim |-> title_sim, made |-> TRUE]

is_good_match(req_artist, req_title, match_artist, match_title) ==
    LET artist_sim == similarity(normalize_text(req_artist),
                                 normalize_text(match_artist))
        title_sim  == similarity(normalize_text(req_title),
                                 normalize_text(match_title))
    IN  IF Geq(artist_sim, ARTIST_THRESHOLD) /\ Geq(title_sim, TITLE_THRESHOLD)
        THEN [is_match |-> TRUE, artist_sim |-> artist_sim,
              title_sim |-> title_sim, made |-> TRUE]
        ELSE IF Geq(title_sim, TITLE_HIGH_THRESHOLD)
        THEN [is_match |-> TRUE, artist_sim |-> artist_sim,
              title_sim |-> title_sim, made |-> TRUE]
        ELSE [is_match |-> FALSE, artist_sim |-> artist_sim,
              title_sim |-> title_sim, made |-> TRUE]

\* download_with_spotdl(artist, track, output_dir) is called
DlCall(artist, track) ==
    /\ dl.pc = "idle"
    /\ dl' = [DlIdle EXCEPT !.pc = "resolve", !.artist = artist,
                            !.track = track]
    /\ UNCHANGED dlFrame

\* get_spotdl_match(query) returns None (found |-> FALSE) or a track
DlResolve(found, m) ==
    /\ dl.pc = "resolve"
    /\ dl' = [dl EXCEPT !.cmds = Append(@, [tool |-> "spotdl save"]),
                        !.match = IF found THEN m ELSE NoMatch,
                        !.pc = IF found /\ m.url # "" THEN "verify"
                               ELSE "ytdlp"]
    /\ UNCHANGED dlFrame

\* the verdict computed and ignored: the resolved url is always downloaded
DlVerify_unchecked ==
    /\ dl.pc = "verify"
    /\ dl' = [dl EXCEPT !.verdict = is_good_match(dl.artist, dl.track,
                                                  dl.match.artist,
                                                  dl.match.name),
                        !.pc = "spotdl"]
    /\ UNCHANGED dlFrame

\* is_good_match on the resolved track, and the branch taken on it
DlVerify ==
    /\ dl.pc = "verify"
    /\ LET v == is_good_match(dl.artist, dl.track, dl.match.artist,
                              dl.match.name)
       IN  dl' = [dl EXCEPT !.verdict = v,
                            !.pc = IF v.is_match THEN "spotdl" ELSE "ytdlp"]
    /\ UNCHANGED dlFrame

\* a failed spotdl download followed by a yt-dlp download
DlSpotdl_fallback(returncode) ==
    /\ dl.pc = "spotdl"
    /\ dl' = [dl EXCEPT !.cmds = Append(@, [tool |-> "spotdl",
                                            url |-> dl.match.url,
                                            returncode |-> returncode]),
                        !.result = (returncode = 0),
                        !.pc = IF returncode = 0 THEN "done" ELSE "ytdlp"]
    /\ UNCHANGED dlFrame

\* subprocess.run(["spotdl", match["url"], ...]) and its return code
DlSpotdl(returncode) ==
    /\ dl.pc = "spotdl"
    /\ dl' = [dl EXCEPT !.cmds = Append(@, [tool |-> "spotdl",
                                            url |-> dl.match.url,
                                            returncode |-> returncode]),
                        !.result = (returncode = 0),
                        !.pc = "done"]
    /\ UNCHANGED dlFrame

\* download_with_ytdlp(artist, track, output_dir) and its return code
DlYtdlp(returncode) ==
    /\ dl.pc = "ytdlp"
    /\ dl' = [dl EXCEPT !.cmds = Append(@, [tool |-> "yt-dlp",
                                            artist |-> dl.artist,
                                            track |-> dl.track,
                                            returncode |-> returncode]),
                        !.result = (returncode = 0),
                        !.pc = "done"]
    /\ UNCHANGED dlFrame

\* the caller takes the result; the next track can be asked for
DlReturn ==
    /\ dl.pc = "done"
    /\ dl' = DlIdle
    /\ UNCHANGED dlFrame

(***************************************************************************)
(* normalize_text and similarity on drawn inputs (src/src/utils.py)        *)
(***************************************************************************)
\* the texts normalized: a base, bracketed segments, a dash and a rest
NzBases ==
    { <<"S","o","n","g">>,
      <<"C","a","f","eacute">>,
      <<"a","_","b">>,
      <<"fraktur_H">>,
      <<"A","&","B">>,
      <<>> }

\* the bracketed segments that follow the base, each after one space
NzSegs ==
    { <<>>,
      <<<<"(","R","a","d","i","o"," ","E","d","i","t",")">>>>,
      <<<<"(","D","e","l","u","x","e",")">>>>,
      <<<<"[","2","0","0","9","]">>>>,
      <<<<"(","D","e","l","u","x","e",")">>, <<"(","L","i","v","e",")">>>>,
      <<<<"(","L","i","v","e",")">>, <<"(","D","e","l","u","x","e",")">>>> }

\* what follows the segments: a dash with its white space, and a text
NzTails ==
    { [dash |-> <<>>, rest |-> <<>>],
      [dash |-> <<" ","-"," ">>, rest |-> <<"R","e","m","a","s","t","e","r","e","d"," ","2","0","0","9">>],
      [dash |-> <<" ","-"," ">>, rest |-> <<"L","i","v","e","r","p","o","o","l">>],
      [dash |-> <<" ","endash"," ">>, rest |-> <<"A","o"," ","V","i","v","o">>],
      [dash |-> <<" ","-"," ">>, rest |-> <<"D","e","l","u","x","e">>],
      [dash |-> <<"-">>, rest |-> <<"L","i","v","e">>],
      [dash |-> <<" ","emdash"," ">>, rest |-> <<"R","a","d","i","o"," ","E","d","i","t">>],
      [dash |-> <<" ","-"," ">>, rest |-> <<"D","e","l","u","x","e"," ","-"," ","L","i","v","e">>] }

RECURSIVE JoinSegs(_)
JoinSegs(segs) ==
    IF segs = <<>> THEN <<>>
    ELSE <<" ">> \o Head(segs) \o JoinSegs(Tail(segs))

Compose(base, segs, tail) == base \o JoinSegs(segs) \o tail.dash \o tail.rest

NoTail == [dash |-> <<>>, rest |-> <<>>]

NzIdle ==
    [pc |-> "idle", base |-> <<>>, segs |-> <<>>, tail |-> NoTail,
     text |-> <<>>, result |-> <<>>, again |-> <<>>]

NzInputs ==
    {[pc |-> "input", base |-> b, segs |-> g, tail |-> t,
      text |-> Compose(b, g, t), result |-> <<>>, again |-> <<>>] :
        b \in NzBases, g \in NzSegs, t \in NzTails}

\* result = normalize_text(text)
Normalize ==
    /\ nz.pc = "input"
    /\ nz' = [nz EXCEPT !.pc = "once", !.result = normalize_text(nz.text)]
    /\ UNCHANGED nzFrame

\* again = normalize_text(result)
NormalizeAgain ==
    /\ nz.pc = "once"
    /\ nz' = [nz EXCEPT !.pc = "twice", !.again = normalize_text(nz.result)]
    /\ UNCHANGED nzFrame

\* the strings compared are at most MaxSimLen characters long
MaxSimLen == 5

SimTexts == UNION {[1..n -> {"a", "b"}] : n \in 0..MaxSimLen}

SmIdle == [pc |-> "idle", a |-> <<>>, b |-> <<>>, ab |-> Zero, ba |-> Zero]

SmInputs ==
    {[pc |-> "input", a |-> a, b |-> b, ab |-> Zero, ba |-> Zero] :
        a \in SimTexts, b \in SimTexts}

\* ab = similarity(a, b), ba = similarity(b, a)
Compare ==
    /\ sm.pc = "input"
    /\ sm' = [sm EXCEPT !.pc = "done", !.ab = similarity(sm.a, sm.b),
                        !.ba = similarity(sm.b, sm.a)]
    /\ UNCHANGED smFrame

(***************************************************************************)
(* get_song_metadata on drawn files (src/src/db.py)                        *)
(***************************************************************************)
\* what precedes the name in a file stem
MdPrefixes ==
    { <<>>,
      <<"0","1"," ","-"," ">>,
      <<"0","1",".">>,
      <<"1","_">>,
      <<"0","1"," ">>,
      <<"0","1">> }

\* the name: a title, or an artist, a separator and a title
MdBodies ==
    { [left |-> <<>>, sep |-> <<>>, right |-> <<"S","o","n","g">>],
      [left |-> <<"A","b","b","a">>, sep |-> <<" ","-"," ">>, right |-> <<"S","o","n","g">>],
      [left |-> <<"A","b","b","a">>, sep |-> <<" ","-"," ">>, right |-> <<"S","o","n","g"," ","-"," ","L","i","v","e">>],
      [left |-> <<"A","b","b","a">>, sep |-> <<" ","endash"," ">>, right |-> <<"S","o","n","g">>],
      [left |-> <<"A","b","b","a">>, sep |-> <<" ","endash"," ">>, right |-> <<"S","o","n","g"," ","-"," ","L","i","v","e">>],
      [left |-> <<"A","b","b","a">>, sep |-> <<" ","emdash"," ">>, right |-> <<"S","o","n","g">>],
      [left |-> <<"A","b","b","a">>, sep |-> <<" ","emdash"," ">>, right |-> <<"S","o","n","g"," ","-"," ","L","i","v","e">>],
      [left |-> <<"A","b","b","a">>, sep |-> <<"-">>, right |-> <<"S","o","n","g">>],
      [left |-> <<"A","b","b","a">>, sep |-> <<" "," ","-"," "," ">>, right |-> <<"S","o","n","g">>],
      [left |-> <<"A","b","b","a">>, sep |-> <<" "," ","-"," "," ">>, right |-> <<"S","o","n","g"," ","-"," ","L","i","v","e">>] }

\* what mutagen reads from the drawn file
MdTags ==
    { [readable |-> FALSE, artist |-> <<>>, albumartist |-> <<>>,
       title |-> <<>>],
      [readable |-> TRUE, artist |-> <<>>, albumartist |-> <<>>,
       title |-> <<>>],
      [readable |-> TRUE, artist |-> <<ABBA>>, albumartist |-> <<>>,
       title |-> <<>>],
      [readable |-> TRUE, artist |-> <<>>, albumartist |-> <<Abby>>,
       title |-> <<>>],
      [readable |-> TRUE, artist |-> <<>>, albumartist |-> <<>>,
       title |-> <<SongLive>>],
      [readable |-> TRUE, artist |-> <<ABBA>>, albumartist |-> <<>>,
       title |-> <<SongLive>>] }

NoBody == [left |-> <<>>, sep |-> <<>>, right |-> <<>>]

NoMeta == [artist |-> <<>>, title |-> <<>>]

MdIdle ==
    [pc |-> "idle", parent |-> <<>>, prefix |-> <<>>, body |-> NoBody,
     stem |-> <<>>, tags |-> [readable |-> FALSE, artist |-> <<>>,
                              albumartist |-> <<>>, title |-> <<>>],
     result |-> NoMeta]

\* the file <parent>/<prefix><left><sep><right>.mp3
MdInputs ==
    {[pc |-> "input", parent |-> Blur, prefix |-> p, body |-> b,
      stem |-> p \o b.left \o b.sep \o b.right, tags |-> t,
      result |-> NoMeta] :
        p \in MdPrefixes, b \in MdBodies, t \in MdTags}

\* result = get_song_metadata(filepath)
ExtractMetadata ==
    /\ md.pc = "input"
    /\ md' = [md EXCEPT !.pc = "done",
                        !.result = get_song_metadata(
                            [parent |-> md.parent, stem |-> md.stem], md.tags)]
    /\ UNCHANGED mdFrame

(***************************************************************************)
(* check_local_matches (src/src/lastfm.py), called by main (src/src/cli.py)*)
(***************************************************************************)
\* tracks of one Last.fm answer
MaxTracks == 2

\* the (artist, name) pairs Last.fm answers with
Candidates == { <<Abba, Song>>, <<Blur, Song>>, <<Blur, Cafe>> }

\* the answers: get_top_tracks_by_artist, get_top_tracks_by_tag and
\* search_tracks_by_title all build their tracks with local_match None;
\* lookup is the SongDatabase method called for the track, assigned the
\* number of assignments to its local_match
Answers ==
    UNION { [1..n -> {[artist |-> c[1], name |-> c[2], local_match |-> None,
                       lookup |-> "none", assigned |-> 0] : c \in Candidates}]
            : n \in 1..MaxTracks }

\* args.tag, args.song or neither
Modes == {"artist", "tag", "song"}

AnnIdle ==
    [pc |-> "idle", mode |-> "artist", title_only |-> FALSE, tracks |-> <<>>,
     i |-> 0, matches |-> 0, result |-> -1]

\* title_only for every query but the artist query
AnnStart_tag(mode, tracks) ==
    /\ pc = "open"
    /\ ann.pc = "idle"
    /\ ann' = [AnnIdle EXCEPT !.pc = "loop", !.mode = mode,
                              !.title_only = (mode # "artist"),
                              !.tracks = tracks]
    /\ UNCHANGED annFrame

\* main: check_local_matches(tracks, db, title_only=args.song);  matches = 0
AnnStart(mode, tracks) ==
    /\ pc = "open"
    /\ ann.pc = "idle"
    /\ ann' = [AnnIdle EXCEPT !.pc = "loop", !.mode = mode,
                              !.title_only = (mode = "song"),
                              !.tracks = tracks]
    /\ UNCHANGED annFrame

\* one iteration of  for t in tracks
AnnStep ==
    /\ ann.pc = "loop"
    /\ ann.i < Len(ann.tracks)
    /\ LET t     == ann.tracks[ann.i + 1]
           match == IF ann.title_only THEN find_match_by_title(db, t.name)
                    ELSE find_match(db, t.artist, t.name)
           how   == IF ann.title_only THEN "find_match_by_title"
                    ELSE "find_match"
       IN  ann' = [ann EXCEPT
                     !.i = @ + 1,
                     !.matches = IF match # None THEN @ + 1 ELSE @,
                     !.tracks[ann.i + 1] =
                         IF match # None
                         THEN [t EXCEPT !.local_match = match,
                                        !.lookup = how,
                                        !.assigned = @ + 1]
                         ELSE [t EXCEPT !.lookup = how]]
    /\ UNCHANGED annFrame

\* return matches
AnnReturn ==
    /\ ann.pc = "loop"
    /\ ann.i = Len(ann.tracks)
    /\ ann' = [ann EXCEPT !.pc = "done", !.result = ann.matches]
    /\ UNCHANGED annFrame

(***************************************************************************)
(* main (src/src/cli.py), given a query                                    *)
(***************************************************************************)
\* the (artist, name) pairs of the answers main receives
MainCandidates == { <<Abba, Song>>, <<Blur, Cafe>> }

\* what the fetch function of the mode returns: [] on an error, else tracks
\* built with local_match None
MainAnswers ==
    UNION { [1..n -> {[artist |-> c[1], name |-> c[2], local_match |-> None,
                       lookup |-> "none", assigned |-> 0] :
                          c \in MainCandidates}]
            : n \in 0..MaxTracks }

Backends == {"spotdl", "yt-dlp"}

MnIdle ==
    [pc |-> "idle", no_db |-> FALSE, dry_run |-> FALSE, yes |-> FALSE,
     mode |-> "artist", rescan |-> FALSE, backend |-> "spotdl",
     answer |-> <<>>, tracks |-> <<>>, local_count |-> 0, listing |-> <<>>,
     listed |-> FALSE, selected |-> FALSE, mkdir |-> FALSE, i |-> 0,
     success |-> 0, failed |-> <<>>, calls |-> <<>>]

\* args = parser.parse_args(): -t and -s exclude each other
MnArgs ==
    {[MnIdle EXCEPT !.pc = "init", !.no_db = n, !.dry_run = d, !.yes = y,
                    !.mode = m, !.rescan = r, !.backend = b] :
        n \in BOOLEAN, d \in BOOLEAN, y \in BOOLEAN, m \in Modes,
        r \in BOOLEAN, b \in Backends}

\* [tracks[i] for i in result] for a sorted list of indices
RECURSIVE Picked(_, _, _)
Picked(tracks, S, k) ==
    IF k > Len(tracks) THEN <<>>
    ELSE IF k \in S THEN <<tracks[k]>> \o Picked(tracks, S, k + 1)
    ELSE Picked(tracks, S, k + 1)

\* the mode's fetch function returned tracks; without tracks the index is
\* closed and the run ends with sys.exit(1)
MnFetch(tracks) ==
    /\ mn.pc = "init"
    /\ IF mn.no_db THEN pc = "closed" ELSE pc = "open"
    /\ mn' = [mn EXCEPT !.pc = IF tracks = <<>> THEN "exit" ELSE "fetched",
                        !.answer = tracks, !.tracks = tracks]
    /\ IF tracks = <<>> /\ ~mn.no_db
       THEN /\ pc' = "closed"
            /\ lookup' = NoLookup
            /\ ScanReturned
            /\ UNCHANGED <<fs, caseInsensitive, db, committed, total, dirty,
                           fsOps, runs, exc>>
       ELSE UNCHANGED indexVars
    /\ UNCHANGED <<dl, nz, sm, md, ann, ui, en, artist_tags>>

\* the index left open after the annotation
MnCount_open ==
    /\ mn.pc = "fetched"
    /\ mn.no_db \/ ann.pc = "done"
    /\ mn' = [mn EXCEPT !.pc = "counted",
                        !.local_count = IF mn.no_db THEN 0 ELSE ann.result,
                        !.tracks = IF mn.no_db THEN mn.tracks ELSE ann.tracks]
    /\ UNCHANGED indexVars
    /\ UNCHANGED <<dl, nz, sm, md, ann, ui, en, artist_tags>>

\* local_count = 0;  if db: local_count = check_local_matches(...) after
\* its return, db.close()
MnCount ==
    /\ mn.pc = "fetched"
    /\ mn.no_db \/ ann.pc = "done"
    /\ mn' = [mn EXCEPT !.pc = "counted",
                        !.local_count = IF mn.no_db THEN 0 ELSE ann.result,
                        !.tracks = IF mn.no_db THEN mn.tracks ELSE ann.tracks]
    /\ IF ~mn.no_db
       THEN /\ pc' = "closed"
            /\ lookup' = NoLookup
            /\ ScanReturned
            /\ UNCHANGED <<fs, caseInsensitive, db, committed, total, dirty,
                           fsOps, runs, exc>>
       ELSE UNCHANGED indexVars
    /\ UNCHANGED <<dl, nz, sm, md, ann, ui, en, artist_tags>>

\* the listing after which --yes goes on to download in a dry run too
MnList_yes ==
    /\ mn.pc = "counted"
    /\ mn' = [mn EXCEPT
                !.pc = IF mn.dry_run /\ ~mn.yes THEN "end" ELSE "select",
                !.listed = mn.dry_run \/ mn.yes,
                !.listing = IF mn.dry_run \/ mn.yes
                            THEN [k \in DOMAIN mn.tracks |->
                                     mn.tracks[k].local_match # None]
                            ELSE <<>>]
    /\ UNCHANGED indexVars
    /\ UNCHANGED <<dl, nz, sm, md, ann, ui, en, artist_tags>>

\* if args.dry_run or args.yes: the tracks are printed, with [LOCAL] after
\* a track with a local match; a dry run ends here
MnList ==
    /\ mn.pc = "counted"
    /\ mn' = [mn EXCEPT
                !.pc = IF mn.dry_run THEN "end" ELSE "select",
                !.listed = mn.dry_run \/ mn.yes,
                !.listing = IF mn.dry_run \/ mn.yes
                            THEN [k \in DOMAIN mn.tracks |->
                                     mn.tracks[k].local_match # None]
                            ELSE <<>>]
    /\ UNCHANGED indexVars
    /\ UNCHANGED <<dl, nz, sm, md, ann, ui, en, artist_tags>>

\* if not args.yes: tracks = interactive_select(tracks), which returns the
\* tracks of a set S of indices; with none selected the run ends
MnSelect(S) ==
    /\ mn.pc = "select"
    /\ IF mn.yes
       THEN /\ S = DOMAIN mn.tracks
            /\ mn' = [mn EXCEPT !.pc = "mkdir"]
       ELSE mn' = [mn EXCEPT !.pc = IF S = {} THEN "end" ELSE "mkdir",
                             !.selected = TRUE,
                             !.tracks = Picked(mn.tracks, S, 1)]
    /\ UNCHANGED indexVars
    /\ UNCHANGED <<dl, nz, sm, md, ann, ui, en, artist_tags>>

\* output_dir.mkdir(parents=True, exist_ok=True)
MnMkdir ==
    /\ mn.pc = "mkdir"
    /\ mn' = [mn EXCEPT !.pc = "download", !.mkdir = TRUE]
    /\ UNCHANGED indexVars
    /\ UNCHANGED <<dl, nz, sm, md, ann, ui, en, artist_tags>>

\* the download loop that stops at the first failure
MnDownload_stop(ok) ==
    /\ mn.pc = "download"
    /\ mn.i < Len(mn.tracks)
    /\ LET t == mn.tracks[mn.i + 1]
       IN  mn' = [mn EXCEPT
                    !.i = IF ok THEN @ + 1 ELSE Len(mn.tracks),
                    !.calls = Append(@, [fn |-> IF mn.backend = "spotdl"
                                                THEN "download_with_spotdl"
                                                ELSE "download_with_ytdlp",
                                         artist |-> t.artist,
                                         name |-> t.name]),
                    !.success = IF ok THEN @ + 1 ELSE @,
                    !.failed = IF ok THEN @ ELSE Append(@, t.name)]
    /\ UNCHANGED indexVars
    /\ UNCHANGED <<dl, nz, sm, md, ann, ui, en, artist_tags>>

\* one iteration of the download loop: download_fn(t["artist"], t["name"],
\* output_dir) returned ok
MnDownload(ok) ==
    /\ mn.pc = "download"
    /\ mn.i < Len(mn.tracks)
    /\ LET t == mn.tracks[mn.i + 1]
       IN  mn' = [mn EXCEPT
                    !.i = @ + 1,
                    !.calls = Append(@, [fn |-> IF mn.backend = "spotdl"
                                                THEN "download_with_spotdl"
                                                ELSE "download_with_ytdlp",
                                         artist |-> t.artist,
                                         name |-> t.name]),
                    !.success = IF ok THEN @ + 1 ELSE @,
                    !.failed = IF ok THEN @ ELSE Append(@, t.name)]
    /\ UNCHANGED indexVars
    /\ UNCHANGED <<dl, nz, sm, md, ann, ui, en, artist_tags>>

\* the loop is over: the totals are printed
MnDone ==
    /\ mn.pc = "download"
    /\ mn.i = Len(mn.tracks)
    /\ mn' = [mn EXCEPT !.pc = "end"]
    /\ UNCHANGED indexVars
    /\ UNCHANGED <<dl, nz, sm, md, ann, ui, en, artist_tags>>

(***************************************************************************)
(* interactive_select (src/src/tui.py)                                     *)
(***************************************************************************)
\* tracks of the list shown
MaxUiTracks == 2

\* iterations of the loop of run_curses in one call
MaxKeys == 3

\* the rows of the terminal: the header takes rows 0 to 2 and cannot be
\* drawn in a terminal of fewer rows
Heights == {3, 5}

\* what getch returns: -1 after the timeout, or a key
Keys ==
    {"timeout", "q", "esc", "up", "k", "down", "j", "ppage", "npage", "home",
     "end", "space", "a", "n", "p", "s", "enter", "x"}

Min(a, b) == IF a < b THEN a ELSE b

Max(a, b) == IF a > b THEN a ELSE b

UiIdle ==
    [pc |-> "idle", n |-> 0, has_local |-> <<>>, height |-> 6, mpv |-> FALSE,
     selected |-> {}, cursor |-> 0, scroll_offset |-> 0, visible_count |-> 0,
     preview_proc |-> 0, playing_idx |-> <<>>, procs |-> {}, spawned |-> 0,
     keys |-> 0, key |-> "none", via |-> "none", result |-> <<>>,
     error |-> "none"]

\* tracks[idx] of a list of n tracks raises IndexError outside -n..n-1
ValidIndex(idx, n) == idx \in (0 - n)..(n - 1)

\* the position in 0..n-1 of tracks[idx]
TrackAt(idx, n) == IF idx < 0 THEN n + idx ELSE idx

\* stop_preview: a running child is terminated, killed after a second; the
\* handle and playing_idx are reset; preview_proc 0 and playing_idx <<>>
\* are None, playing_idx <<i>> is i
stop_preview(u) ==
    [u EXCEPT !.procs = @ \ {u.preview_proc}, !.preview_proc = 0,
              !.playing_idx = <<>>]

\* start_preview without the call of stop_preview
start_preview_nostop(u, idx) ==
    IF ~ValidIndex(idx, u.n)
    THEN [u EXCEPT !.pc = "raised", !.error = "IndexError"]
    ELSE IF u.mpv
    THEN [u EXCEPT !.spawned = @ + 1, !.preview_proc = u.spawned + 1,
                   !.procs = @ \cup {u.spawned + 1}, !.playing_idx = <<idx>>]
    ELSE u

\* start_preview(idx): stop_preview(), tracks[idx], Popen; without mpv
\* Popen raises FileNotFoundError, which is passed over
start_preview(u, idx) ==
    LET v == stop_preview(u)
    IN  IF ~ValidIndex(idx, v.n)
        THEN [v EXCEPT !.pc = "raised", !.error = "IndexError"]
        ELSE IF v.mpv
        THEN [v EXCEPT !.spawned = @ + 1, !.preview_proc = v.spawned + 1,
                       !.procs = @ \cup {v.spawned + 1}, !.playing_idx = <<idx>>]
        ELSE v

\* sorted(selected)
RECURSIVE Sorted(_)
Sorted(S) ==
    IF S = {} THEN <<>>
    ELSE LET m == CHOOSE x \in S : \A y \in S : x <= y
         IN  <<m>> \o Sorted(S \ {m})

\* ENTER: stop_preview(); return list(sorted(selected)), then
\* [tracks[i] for i in result]; the result holds positions in 0..n-1
OnEnter(u) ==
    LET v == stop_preview(u)
        r == Sorted(v.selected)
    IN  IF \E i \in DOMAIN r : ~ValidIndex(r[i], v.n)
        THEN [v EXCEPT !.pc = "raised", !.error = "IndexError"]
        ELSE [v EXCEPT !.pc = "returned", !.via = "enter",
                       !.result = [i \in DOMAIN r |-> TrackAt(r[i], v.n)]]

\* the branch of the key read; PageUp clamps the cursor at 0 only and
\* PageDown at len(tracks) - 1 only
OnKey(u, key) ==
    CASE key = "timeout" -> u
      [] key \in {"q", "esc"} ->
            [stop_preview(u) EXCEPT !.pc = "returned", !.via = "quit",
                                    !.result = <<>>]
      [] key \in {"up", "k"} -> [u EXCEPT !.cursor = Max(0, u.cursor - 1)]
      [] key \in {"down", "j"} ->
            [u EXCEPT !.cursor = Min(u.n - 1, u.cursor + 1)]
      [] key = "ppage" ->
            [u EXCEPT !.cursor = Max(0, u.cursor - u.visible_count)]
      [] key = "npage" ->
            [u EXCEPT !.cursor = Min(u.n - 1, u.cursor + u.visible_count)]
      [] key = "home" -> [u EXCEPT !.cursor = 0]
      [] key = "end" -> [u EXCEPT !.cursor = u.n - 1]
      [] key = "space" ->
            [u EXCEPT !.selected = IF u.cursor \in u.selected
                                   THEN u.selected \ {u.cursor}
                                   ELSE u.selected \cup {u.cursor},
                      !.cursor = Min(u.n - 1, u.cursor + 1)]
      [] key = "a" -> [u EXCEPT !.selected = 0..(u.n - 1)]
      [] key = "n" -> [u EXCEPT !.selected = {}]
      [] key = "p" ->
            IF u.playing_idx = <<u.cursor>> THEN stop_preview(u)
            ELSE start_preview(u, u.cursor)
      [] key = "s" -> stop_preview(u)
      [] key = "enter" -> OnEnter(u)
      [] OTHER -> u

\* interactive_select(tracks): has_local from the local_match of each
\* track, the tracks without one selected, cursor and scroll_offset 0
UiOpen(has_local, height, mpv) ==
    /\ ui.pc = "idle"
    /\ ui' = [UiIdle EXCEPT !.pc = "loop", !.n = Len(has_local),
                            !.has_local = has_local, !.height = height,
                            !.mpv = mpv,
                            !.selected = {i \in 0..(Len(has_local) - 1) :
                                             ~has_local[i + 1]}]
    /\ UNCHANGED uiFrame

\* one iteration of the loop: a preview that has ended is forgotten, the
\* visible area is computed from the height and the scroll offset moved,
\* the list is drawn (tracks[track_idx] from scroll_offset on), a key is
\* read (key, "none" when the drawing raised) and its branch taken
UiKey(key) ==
    /\ ui.pc = "loop"
    /\ ui.keys < MaxKeys
    /\ LET polled  == IF ui.preview_proc # 0 /\ ui.preview_proc \notin ui.procs
                      THEN [ui EXCEPT !.preview_proc = 0,
                                      !.playing_idx = <<>>]
                      ELSE ui
           visible == Min(ui.height - 3 - 1, ui.n)
           scroll  == IF polled.cursor < polled.scroll_offset
                      THEN polled.cursor
                      ELSE IF polled.cursor >= polled.scroll_offset + visible
                      THEN polled.cursor - visible + 1
                      ELSE polled.scroll_offset
           drawn   == [polled EXCEPT !.visible_count = visible,
                                     !.scroll_offset = scroll,
                                     !.keys = @ + 1, !.key = "none"]
       IN  ui' = IF visible > 0 /\ ~ValidIndex(scroll, ui.n) /\ scroll < ui.n
                 THEN [drawn EXCEPT !.pc = "raised", !.error = "IndexError"]
                 ELSE OnKey([drawn EXCEPT !.key = key], key)
    /\ UNCHANGED uiFrame

\* the terminal is resized
UiResize(height) ==
    /\ ui.pc = "loop"
    /\ height # ui.height
    /\ ui' = [ui EXCEPT !.height = height]
    /\ UNCHANGED uiFrame

\* the preview child ends by itself
UiPreviewEnds ==
    /\ ui.pc = "loop"
    /\ ui.procs # {}
    /\ \E id \in ui.procs : ui' = [ui EXCEPT !.procs = @ \ {id}]
    /\ UNCHANGED uiFrame

\* Ctrl-C: except KeyboardInterrupt: return []
UiInterrupt ==
    /\ ui.pc = "loop"
    /\ ui' = [ui EXCEPT !.pc = "returned", !.via = "interrupt",
                        !.result = <<>>]
    /\ UNCHANGED uiFrame

(***************************************************************************)
(* extract_base_artist (src/src/utils.py)                                  *)
(***************************************************************************)
\* COLLAB_PATTERNS but the last: white space, the words with white space
\* between them, then white space (space |-> TRUE) or not, then the rest
COLLAB_PATTERNS ==
    << {[words |-> << <<"p","a","r","t","i","c","i","p","a","ccedil","atilde","o">>,
                      <<"e","s","p","e","c","i","a","l">> >>, space |-> TRUE]},
       {[words |-> << <<"p","a","r","t","i","c","i","p","a","ccedil","atilde","o">> >>,
         space |-> TRUE]},
       {[words |-> << <<"p","a","r","t",".">> >>, space |-> FALSE]},
       {[words |-> << <<"f","e","a","t",".">> >>, space |-> FALSE]},
       {[words |-> << <<"f","t",".">> >>, space |-> FALSE]},
       {[words |-> << <<"f","e","a","t","u","r","i","n","g">> >>, space |-> TRUE]},
       {[words |-> << <<"w","i","t","h">> >>, space |-> TRUE]},
       {[words |-> << <<"v","s",".">> >>, space |-> TRUE],
        [words |-> << <<"v","s">> >>, space |-> TRUE]} >>

\* the position after the words matched from position k, white space
\* before each, or -1
RECURSIVE MatchWords(_, _, _)
MatchWords(s, k, words) ==
    IF words = <<>> THEN k
    ELSE LET q == SkipSpace(s, k)
             w == Head(words)
         IN  IF q > k /\ q + Len(w) <= Len(s)
                /\ lower(Slice(s, q, q + Len(w))) = w
             THEN MatchWords(s, q + Len(w), Tail(words))
             ELSE -1

\* the positions at which an alternative of a pattern matches
CollabStarts(s, alts) ==
    {k \in 0..(Len(s) - 1) :
        \E a \in alts :
            LET e == MatchWords(s, k, a.words)
            IN  /\ e # -1
                /\ a.space => (e < Len(s) /\ IsSpace(s[e + 1]))}

\* r"\s+&\s+[^&]+$": white space, &, white space, then no & up to the end
AmpStarts(s) ==
    {k \in 0..(Len(s) - 1) :
        LET q == SkipSpace(s, k)
        IN  /\ q > k
            /\ q + 3 <= Len(s)
            /\ s[q + 1] = "&"
            /\ IsSpace(s[q + 2])
            /\ \A j \in (q + 2)..Len(s) : s[j] # "&"}

\* re.sub(pattern, "", result).strip(), kept when 2 characters or more
CutAt(result, starts) ==
    IF starts = {} THEN result
    ELSE LET k          == CHOOSE x \in starts : \A y \in starts : x <= y
             new_result == Strip(Slice(result, 0, k))
         IN  IF Len(new_result) >= 2 THEN new_result ELSE result

RECURSIVE ApplyCollab(_, _)
ApplyCollab(result, k) ==
    IF k > Len(COLLAB_PATTERNS) THEN CutAt(result, AmpStarts(result))
    ELSE ApplyCollab(CutAt(result, CollabStarts(result, COLLAB_PATTERNS[k])),
                     k + 1)

extract_base_artist(artist) == ApplyCollab(Strip(artist), 1)

(***************************************************************************)
(* enrich_database_with_tags (src/src/playlist.py)                         *)
(***************************************************************************)
\* SongDatabase.get_unique_artists: the distinct (artist_norm, artist) of
\* the rows with a non-empty artist_norm
get_unique_artists(rows) ==
    {<<rows[i].artist_norm, rows[i].artist>> : i \in DOMAIN rows}
        \ {x \in {<<rows[i].artist_norm, rows[i].artist>> : i \in DOMAIN rows} :
               x[1] = <<>>}

\* SongDatabase.set_artist_tags: INSERT OR REPLACE by artist_norm
set_artist_tags(table, artist_norm, tags) ==
    [n \in DOMAIN table \cup {artist_norm} |->
        IF n = artist_norm THEN tags ELSE table[n]]

\* text.startswith(prefix)
StartsWith(text, prefix) ==
    Len(prefix) <= Len(text) /\ SubSeq(text, 1, Len(prefix)) = prefix

\* find_cached_tags_for_artist: the exact entry, else the non-empty tags of
\* the base artist, else those of the longest cached name of 3 characters
\* or more that the name starts with, else None
find_cached_tags_for_artist(artist, artist_norm, cached_artists) ==
    LET base_norm == normalize_text(extract_base_artist(artist))
        prefixes  == {c \in DOMAIN cached_artists :
                         /\ cached_artists[c] # <<>>
                         /\ Len(c) >= 3
                         /\ StartsWith(artist_norm, c \o <<" ">>)}
    IN  IF artist_norm \in DOMAIN cached_artists
        THEN [found |-> TRUE, tags |-> cached_artists[artist_norm]]
        ELSE IF /\ base_norm # artist_norm
                /\ base_norm \in DOMAIN cached_artists
                /\ cached_artists[base_norm] # <<>>
        THEN [found |-> TRUE, tags |-> cached_artists[base_norm]]
        ELSE IF prefixes # {}
        THEN [found |-> TRUE,
              tags |-> cached_artists[CHOOSE c \in prefixes :
                                         \A d \in prefixes : Len(d) <= Len(c)]]
        ELSE [found |-> FALSE, tags |-> <<>>]

\* the artists of the rows of the index enriched
EnArtistNames ==
    { Abba,
      Blur,
      <<"A","b","b","a"," ","f","e","a","t","."," ","B","l","u","r">>,
      <<"A","b","b","a"," ","L","i","v","e">>,
      <<"!","!","!">> }

\* what get_artist_tags_from_lastfm returns: [] on an error or without tags
RemoteTags == { <<>>, <<"rock">> }

\* the contents of table artist_tags before the call
TagTables ==
    { <<>>,
      [n \in {normalize_text(Abba)} |-> <<"pop">>],
      [n \in {normalize_text(Abba)} |-> <<>>],
      [n \in {normalize_text(Abba), normalize_text(Blur)} |-> <<"pop">>] }

EnIdle ==
    [pc |-> "idle", force |-> FALSE, artists |-> <<>>, cached0 |-> <<>>,
     cached_artists |-> <<>>, i |-> 0, remote |-> <<>>, enriched |-> 0,
     inherited |-> 0, skipped |-> 0, failed |-> 0, result |-> -1]

\* artists = db.get_unique_artists();  cached_artists =
\* db.get_all_artist_tags();  the counters are 0
EnStart(forced, order) ==
    /\ pc = "open"
    /\ en.pc = "idle"
    /\ en' = [EnIdle EXCEPT !.pc = "loop", !.force = forced,
                            !.artists = order, !.cached0 = artist_tags,
                            !.cached_artists = artist_tags]
    /\ UNCHANGED artist_tags
    /\ UNCHANGED enFrame

\* one iteration of the loop over artists; tags1 and tags2 are what the
\* first and the second request to Last.fm return, when they are made;
\* remote holds the artist names asked for, with the index of the artist
EnStep(tags1, tags2) ==
    /\ en.pc = "loop"
    /\ en.i < Len(en.artists)
    /\ LET k             == en.i + 1
           artist_norm   == en.artists[k][1]
           artist        == en.artists[k][2]
           inherited_tags ==
               find_cached_tags_for_artist(artist, artist_norm,
                                           en.cached_artists)
           base_artist   == extract_base_artist(artist)
           lookup_artist == IF base_artist # artist THEN base_artist ELSE artist
           second        == tags1 = <<>> /\ lookup_artist # artist
           tags          == IF second THEN tags2 ELSE tags1
           asked         == IF second
                            THEN <<[k |-> k, artist |-> lookup_artist],
                                   [k |-> k, artist |-> artist]>>
                            ELSE <<[k |-> k, artist |-> lookup_artist]>>
           base_norm     == normalize_text(base_artist)
           with_own      == set_artist_tags(en.cached_artists, artist_norm, tags)
           with_base     ==
               IF base_norm # artist_norm /\ base_norm \notin DOMAIN with_own
               THEN set_artist_tags(with_own, base_norm, tags)
               ELSE with_own
       IN  IF ~en.force /\ artist_norm \in DOMAIN en.cached_artists
           THEN /\ en' = [en EXCEPT !.i = k, !.skipped = @ + 1]
                /\ UNCHANGED artist_tags
           ELSE IF inherited_tags.found /\ inherited_tags.tags # <<>>
           THEN /\ artist_tags' = set_artist_tags(artist_tags, artist_norm,
                                                  inherited_tags.tags)
                /\ en' = [en EXCEPT
                             !.i = k,
                             !.inherited = @ + 1,
                             !.cached_artists =
                                 set_artist_tags(@, artist_norm,
                                                 inherited_tags.tags)]
           ELSE IF tags # <<>>
           THEN /\ artist_tags' =
                     IF base_norm # artist_norm
                        /\ base_norm \notin DOMAIN with_own
                     THEN set_artist_tags(
                              set_artist_tags(artist_tags, artist_norm, tags),
                              base_norm, tags)
                     ELSE set_artist_tags(artist_tags, artist_norm, tags)
                /\ en' = [en EXCEPT !.i = k, !.enriched = @ + 1,
                                    !.remote = @ \o asked,
                                    !.cached_artists = with_base]
           ELSE /\ artist_tags' = set_artist_tags(artist_tags, artist_norm,
                                                  <<>>)
                /\ en' = [en EXCEPT !.i = k, !.failed = @ + 1,
                                    !.remote = @ \o asked,
                                    !.cached_artists =
                                        set_artist_tags(@, artist_norm, <<>>)]
    /\ UNCHANGED enFrame

\* return enriched + inherited
EnReturn ==
    /\ en.pc = "loop"
    /\ en.i = Len(en.artists)
    /\ en' = [en EXCEPT !.pc = "done", !.result = en.enriched + en.inherited]
    /\ UNCHANGED artist_tags
    /\ UNCHANGED enFrame

(***************************************************************************)
(* The library index: reconciliation and lookups                           *)
(***************************************************************************)
Init ==
    /\ fs = [p \in Paths |-> NoFile]
    /\ caseInsensitive \in BOOLEAN
    /\ db = <<>>
    /\ committed = <<>>
    /\ pc = "closed"
    /\ force = FALSE
    /\ audio_files = <<>>
    /\ existing_paths = {}
    /\ indexed = <<>>
    /\ pos = 0
    /\ added = 0
    /\ total = -1
    /\ extracted = <<>>
    /\ commits = 0
    /\ prev = NoPrev
    /\ dirty = FALSE
    /\ lookup = NoLookup
    /\ fsOps = 0
    /\ runs = 0
    /\ exc = "none"
    /\ dl = DlIdle
    /\ nz = NzIdle
    /\ sm = SmIdle
    /\ md = MdIdle
    /\ ann = AnnIdle
    /\ mn = MnIdle
    /\ ui = UiIdle
    /\ en = EnIdle
    /\ artist_tags = <<>>

Next ==
    \/ \E forced \in BOOLEAN, order \in Orders(Present(fs)) :
            ScanStart(forced, order)
    \/ ScanFile
    \/ ScanCommit
    \/ Interrupt
    \/ \E q \in RunQueries : FindMatch(q[1], q[2])
    \/ \E q \in RunQueries : FindMatchByTitle(q[1], q[2])
    \/ Close
    \/ \E p \in Paths, f \in Files : WriteFile(p, f)
    \/ \E p \in Paths : RemoveFile(p)
    \/ \E p, q \in Paths : RenameFile(p, q)

Spec == Init /\ [][Next]_vars

(***************************************************************************)
(* Lookups on an index of any contents                                     *)
(***************************************************************************)
RowPaths == <<"r1", "r2", "r3", "r4">>

\* the indexes of at most MaxRows rows, as add_song writes the rows
DrawnIndexes ==
    UNION { { [k \in 1..n |->
                 [path |-> RowPaths[k], artist |-> f[k][1],
                  artist_norm |-> normalize_text(f[k][1]), title |-> f[k][2],
                  title_norm |-> normalize_text(f[k][2]), mtime |-> 1]]
              : f \in [1..n -> RowSamples] }
            : n \in 0..MaxRows }

InitMatch ==
    /\ fs = [p \in Paths |-> NoFile]
    /\ caseInsensitive \in BOOLEAN
    /\ db \in DrawnIndexes
    /\ committed = db
    /\ pc = "open"
    /\ force = FALSE
    /\ audio_files = <<>>
    /\ existing_paths = {}
    /\ indexed = <<>>
    /\ pos = 0
    /\ added = 0
    /\ total = Len(db)
    /\ extracted = <<>>
    /\ commits = 0
    /\ prev = NoPrev
    /\ dirty = FALSE
    /\ lookup = NoLookup
    /\ fsOps = 0
    /\ runs = 1
    /\ exc = "none"
    /\ dl = DlIdle
    /\ nz = NzIdle
    /\ sm = SmIdle
    /\ md = MdIdle
    /\ ann = AnnIdle
    /\ mn = MnIdle
    /\ ui = UiIdle
    /\ en = EnIdle
    /\ artist_tags = <<>>

\* a music directory of any content, read by one pass
InitEnumerate ==
    /\ fs \in [DOMAIN PathInfo ->
                 {NoFile, [mtime |-> 1,
                           tags |-> [readable |-> FALSE, artist |-> <<>>,
                                     albumartist |-> <<>>, title |-> <<>>]]}]
    /\ caseInsensitive \in BOOLEAN
    /\ db = <<>>
    /\ committed = <<>>
    /\ pc = "closed"
    /\ force = FALSE
    /\ audio_files = <<>>
    /\ existing_paths = {}
    /\ indexed = <<>>
    /\ pos = 0
    /\ added = 0
    /\ total = -1
    /\ extracted = <<>>
    /\ commits = 0
    /\ prev = NoPrev
    /\ dirty = FALSE
    /\ lookup = NoLookup
    /\ fsOps = 0
    /\ runs = 0
    /\ exc = "none"
    /\ dl = DlIdle
    /\ nz = NzIdle
    /\ sm = SmIdle
    /\ md = MdIdle
    /\ ann = AnnIdle
    /\ mn = MnIdle
    /\ ui = UiIdle
    /\ en = EnIdle
    /\ artist_tags = <<>>

NextEnumerate ==
    \/ \E forced \in BOOLEAN, order \in Orders(Present(fs)) :
            ScanStart(forced, order)
    \/ ScanFile
    \/ ScanCommit

SpecEnumerate == InitEnumerate /\ [][NextEnumerate]_vars

NextMatch ==
    \/ \E q \in Queries : FindMatch(q[1], q[2])
    \/ \E q \in Queries : FindMatchByTitle(q[1], q[2])

SpecMatch == InitMatch /\ [][NextMatch]_vars

(***************************************************************************)
(* The downloads of a run                                                  *)
(***************************************************************************)
NextDownload ==
    \/ \E r \in Requests : DlCall(r[1], r[2])
    \/ \E found \in BOOLEAN, m \in Resolutions : DlResolve(found, m)
    \/ DlVerify
    \/ \E returncode \in {0, 1} : DlSpotdl(returncode)
    \/ \E returncode \in {0, 1} : DlYtdlp(returncode)
    \/ DlReturn

SpecDownload == Init /\ [][NextDownload]_vars

(***************************************************************************)
(* The text functions on their own                                         *)
(***************************************************************************)
\* no run of the program: the index is closed and empty
IndexIdle ==
    /\ fs = [p \in Paths |-> NoFile]
    /\ caseInsensitive = FALSE
    /\ db = <<>>
    /\ committed = <<>>
    /\ pc = "closed"
    /\ force = FALSE
    /\ audio_files = <<>>
    /\ existing_paths = {}
    /\ indexed = <<>>
    /\ pos = 0
    /\ added = 0
    /\ total = -1
    /\ extracted = <<>>
    /\ commits = 0
    /\ prev = NoPrev
    /\ dirty = FALSE
    /\ lookup = NoLookup
    /\ fsOps = 0
    /\ runs = 0
    /\ exc = "none"

InitNormalize ==
    /\ IndexIdle
    /\ dl = DlIdle
    /\ nz \in NzInputs
    /\ sm = SmIdle
    /\ md = MdIdle
    /\ ann = AnnIdle
    /\ mn = MnIdle
    /\ ui = UiIdle
    /\ en = EnIdle
    /\ artist_tags = <<>>

NextNormalize ==
    \/ Normalize
    \/ NormalizeAgain

SpecNormalize == InitNormalize /\ [][NextNormalize]_vars

InitSimilarity ==
    /\ IndexIdle
    /\ dl = DlIdle
    /\ nz = NzIdle
    /\ sm \in SmInputs
    /\ md = MdIdle
    /\ ann = AnnIdle
    /\ mn = MnIdle
    /\ ui = UiIdle
    /\ en = EnIdle
    /\ artist_tags = <<>>

NextSimilarity == Compare

SpecSimilarity == InitSimilarity /\ [][NextSimilarity]_vars

InitMetadata ==
    /\ IndexIdle
    /\ dl = DlIdle
    /\ nz = NzIdle
    /\ sm = SmIdle
    /\ md \in MdInputs
    /\ ann = AnnIdle
    /\ mn = MnIdle
    /\ ui = UiIdle
    /\ en = EnIdle
    /\ artist_tags = <<>>

NextMetadata == ExtractMetadata

SpecMetadata == InitMetadata /\ [][NextMetadata]_vars

(***************************************************************************)
(* The annotation of a Last.fm answer against an index of any contents     *)
(***************************************************************************)
\* the (artist, title) pairs of the rows of the index annotated against
AnnRows == { <<Abba, Song>>, <<ABBA, SongLive>>, <<Blur, Cafe>> }

AnnIndexes ==
    UNION { { [k \in 1..n |->
                 [path |-> RowPaths[k], artist |-> f[k][1],
                  artist_norm |-> normalize_text(f[k][1]), title |-> f[k][2],
                  title_norm |-> normalize_text(f[k][2]), mtime |-> 1]]
              : f \in [1..n -> AnnRows] }
            : n \in 0..MaxRows }

\* the state of main after scan_music_library and the Last.fm request
InitAnnotate ==
    /\ fs = [p \in Paths |-> NoFile]
    /\ caseInsensitive = FALSE
    /\ db \in AnnIndexes
    /\ committed = db
    /\ pc = "open"
    /\ force = FALSE
    /\ audio_files = <<>>
    /\ existing_paths = {}
    /\ indexed = <<>>
    /\ pos = 0
    /\ added = 0
    /\ total = Len(db)
    /\ extracted = <<>>
    /\ commits = 0
    /\ prev = NoPrev
    /\ dirty = FALSE
    /\ lookup = NoLookup
    /\ fsOps = 0
    /\ runs = 1
    /\ exc = "none"
    /\ dl = DlIdle
    /\ nz = NzIdle
    /\ sm = SmIdle
    /\ md = MdIdle
    /\ ann = AnnIdle
    /\ mn = MnIdle
    /\ ui = UiIdle
    /\ en = EnIdle
    /\ artist_tags = <<>>

NextAnnotate ==
    \/ \E mode \in Modes, tracks \in Answers : AnnStart(mode, tracks)
    \/ AnnStep
    \/ AnnReturn

SpecAnnotate == InitAnnotate /\ [][NextAnnotate]_vars

(***************************************************************************)
(* The runs of the program over a database that holds cached artist tags   *)
(***************************************************************************)
InitReconcile ==
    /\ IndexIdle
    /\ dl = DlIdle
    /\ nz = NzIdle
    /\ sm = SmIdle
    /\ md = MdIdle
    /\ ann = AnnIdle
    /\ mn = MnIdle
    /\ ui = UiIdle
    /\ en = EnIdle
    /\ artist_tags \in {t \in TagTables : Cardinality(DOMAIN t) = 2}

SpecReconcile == InitReconcile /\ [][Next]_vars

(***************************************************************************)
(* One call of interactive_select on any short list of tracks              *)
(***************************************************************************)
InitSelect ==
    /\ IndexIdle
    /\ dl = DlIdle
    /\ nz = NzIdle
    /\ sm = SmIdle
    /\ md = MdIdle
    /\ ann = AnnIdle
    /\ mn = MnIdle
    /\ ui = UiIdle
    /\ en = EnIdle
    /\ artist_tags = <<>>

NextSelect ==
    \/ \E n \in 1..MaxUiTracks, height \in Heights, mpv \in BOOLEAN :
          \E has_local \in [1..n -> BOOLEAN] : UiOpen(has_local, height, mpv)
    \/ \E key \in Keys : UiKey(key)
    \/ \E height \in Heights : UiResize(height)
    \/ UiPreviewEnds
    \/ UiInterrupt

SpecSelect == InitSelect /\ [][NextSelect]_vars

(***************************************************************************)
(* The enrichment of an index of any artists over any tag cache            *)
(***************************************************************************)
\* the indexes of at most MaxRows rows of these artists
EnIndexes ==
    UNION { { [k \in 1..n |->
                 [path |-> RowPaths[k], artist |-> f[k],
                  artist_norm |-> normalize_text(f[k]), title |-> Song,
                  title_norm |-> normalize_text(Song), mtime |-> 1]]
              : f \in [1..n -> EnArtistNames] }
            : n \in 0..MaxRows }

InitEnrich ==
    /\ fs = [p \in Paths |-> NoFile]
    /\ caseInsensitive = FALSE
    /\ db \in EnIndexes
    /\ committed = db
    /\ pc = "open"
    /\ force = FALSE
    /\ audio_files = <<>>
    /\ existing_paths = {}
    /\ indexed = <<>>
    /\ pos = 0
    /\ added = 0
    /\ total = Len(db)
    /\ extracted = <<>>
    /\ commits = 0
    /\ prev = NoPrev
    /\ dirty = FALSE
    /\ lookup = NoLookup
    /\ fsOps = 0
    /\ runs = 1
    /\ exc = "none"
    /\ dl = DlIdle
    /\ nz = NzIdle
    /\ sm = SmIdle
    /\ md = MdIdle
    /\ ann = AnnIdle
    /\ mn = MnIdle
    /\ ui = UiIdle
    /\ en = EnIdle
    /\ artist_tags \in TagTables

NextEnrich ==
    \/ \E forced \in BOOLEAN, order \in Orders(get_unique_artists(db)) :
            EnStart(forced, order)
    \/ \E tags1, tags2 \in RemoteTags : EnStep(tags1, tags2)
    \/ EnReturn

SpecEnrich == InitEnrich /\ [][NextEnrich]_vars

(***************************************************************************)
(* One run of main over a music directory of two files                     *)
(***************************************************************************)
InitMain ==
    /\ fs = [p1 |-> [mtime |-> 1,
                     tags |-> [readable |-> FALSE, artist |-> <<>>,
                               albumartist |-> <<>>, title |-> <<>>]],
             p2 |-> [mtime |-> 1,
                     tags |-> [readable |-> TRUE, artist |-> <<ABBA>>,
                               albumartist |-> <<>>, title |-> <<SongLive>>]]]
    /\ caseInsensitive = FALSE
    /\ db = <<>>
    /\ committed = <<>>
    /\ pc = "closed"
    /\ force = FALSE
    /\ audio_files = <<>>
    /\ existing_paths = {}
    /\ indexed = <<>>
    /\ pos = 0
    /\ added = 0
    /\ total = -1
    /\ extracted = <<>>
    /\ commits = 0
    /\ prev = NoPrev
    /\ dirty = FALSE
    /\ lookup = NoLookup
    /\ fsOps = 0
    /\ runs = 0
    /\ exc = "none"
    /\ dl = DlIdle
    /\ nz = NzIdle
    /\ sm = SmIdle
    /\ md = MdIdle
    /\ ann = AnnIdle
    /\ mn \in MnArgs
    /\ ui = UiIdle
    /\ en = EnIdle
    /\ artist_tags = <<>>

\* the index opened and reconciled also with --no-db
MnScan_always(order) ==
    /\ mn.pc = "init"
    /\ ScanStart(mn.rescan, order)

\* if not args.no_db: db = SongDatabase();  scan_music_library(db,
\* MUSIC_DIR, force=args.rescan)
MnScan(order) ==
    /\ mn.pc = "init"
    /\ ~mn.no_db
    /\ ScanStart(mn.rescan, order)

\* if db: check_local_matches(tracks, db, title_only=args.song)
MnAnnotate ==
    /\ mn.pc = "fetched"
    /\ ~mn.no_db
    /\ AnnStart(mn.mode, mn.tracks)

NextMain ==
    \/ \E order \in Orders(Present(fs)) : MnScan(order)
    \/ ScanFile
    \/ ScanCommit
    \/ \E tracks \in MainAnswers : MnFetch(tracks)
    \/ MnAnnotate
    \/ AnnStep
    \/ AnnReturn
    \/ MnCount
    \/ MnList
    \/ \E S \in SUBSET DOMAIN mn.tracks : MnSelect(S)
    \/ MnMkdir
    \/ \E ok \in BOOLEAN : MnDownload(ok)
    \/ MnDone

SpecMain == InitMain /\ [][NextMain]_vars

(***************************************************************************)
(* Properties                                                              *)
(***************************************************************************)
\* 0.3 * artist_sim + 0.7 * title_sim of row k for a normalized query
Score(rows, k, artist_norm, title_norm) ==
    LET a == similarity(artist_norm, rows[k].artist_norm)
        t == similarity(title_norm, rows[k].title_norm)
    IN  [num |-> 3 * a.num * t.den + 7 * t.num * a.den,
         den |-> 10 * a.den * t.den]

\* the rows that pass both gates of artist+title mode
Passing(rows, artist_norm, title_norm) ==
    {k \in DOMAIN rows :
        /\ Geq(similarity(artist_norm, rows[k].artist_norm), SIMILARITY_THRESHOLD)
        /\ Geq(similarity(title_norm, rows[k].title_norm), SIMILARITY_THRESHOLD)}

\* the rows that pass the gate of title-only mode
PassingTitle(rows, title_norm) ==
    {k \in DOMAIN rows :
        Geq(similarity(title_norm, rows[k].title_norm), TITLE_ONLY_THRESHOLD)}

\* C1: find_match returns None when no row passes both 0.70 gates, and
\* otherwise the first row of the highest 0.3*artist_sim + 0.7*title_sim
\* among the rows that pass, with that value as its score.
C1_FindMatch ==
    lookup.kind = "find_match" =>
        LET an   == normalize_text(lookup.artist)
            tn   == normalize_text(lookup.title)
            pass == Passing(db, an, tn)
            res  == lookup.result
        IN  IF pass = {} THEN res = None
            ELSE /\ res.found
                 /\ \E k \in pass :
                      /\ \A j \in pass :
                            Geq(Score(db, k, an, tn), Score(db, j, an, tn))
                      /\ \A j \in pass :
                            j < k => Lt(Score(db, j, an, tn), Score(db, k, an, tn))
                      /\ res.path = db[k].path
                      /\ res.artist = db[k].artist
                      /\ res.title = db[k].title
                      /\ Eq(res.score, Score(db, k, an, tn))

\* a lookup in which two rows pass with the same, highest score
C1_Witness ==
    /\ lookup.kind = "find_match"
    /\ LET an == normalize_text(lookup.artist)
           tn == normalize_text(lookup.title)
       IN  /\ {1, 2} \subseteq Passing(db, an, tn)
           /\ Eq(Score(db, 1, an, tn), Score(db, 2, an, tn))
           /\ db[1].artist # db[2].artist
           /\ lookup.result.found
           /\ lookup.result.path = db[1].path

\* C2: find_match_by_title returns None when no row has a title similarity
\* of at least 0.80, and otherwise the first row of the highest title
\* similarity; a row whose title similarity is in [0.70, 0.80) is not
\* returned although it passes the title gate of artist+title mode.
C2_FindMatchByTitle ==
    lookup.kind = "find_match_by_title" =>
        LET tn   == normalize_text(lookup.title)
            pass == PassingTitle(db, tn)
            sim(k) == similarity(tn, db[k].title_norm)
            res  == lookup.result
        IN  /\ IF pass = {} THEN res = None
               ELSE /\ res.found
                    /\ \E k \in pass :
                         /\ \A j \in pass : Geq(sim(k), sim(j))
                         /\ \A j \in pass : j < k => Lt(sim(j), sim(k))
                         /\ res.path = db[k].path
                         /\ res.artist = db[k].artist
                         /\ res.title = db[k].title
                         /\ Eq(res.score, sim(k))
            /\ \A k \in DOMAIN db :
                  Lt(sim(k), TITLE_ONLY_THRESHOLD)
                     => ~(res.found /\ res.path = db[k].path)

\* a title-only lookup that finds nothing although a row of another artist
\* has a title similarity in [0.70, 0.80), which artist+title mode returns
C2_Witness ==
    /\ lookup.kind = "find_match_by_title"
    /\ lookup.result = None
    /\ \E k \in DOMAIN db :
          LET t == similarity(normalize_text(lookup.title), db[k].title_norm)
          IN  /\ Geq(t, SIMILARITY_THRESHOLD)
              /\ Lt(t, TITLE_ONLY_THRESHOLD)
              /\ find_match(db, db[k].artist, lookup.title).found

\* C3: is_good_match accepts exactly when (artist_sim >= 0.5 and
\* title_sim >= 0.5) or title_sim >= 0.8, for the similarities of the
\* normalized strings, and returns the two similarities with the decision.
C3_IsGoodMatch ==
    dl.verdict.made =>
        LET a == similarity(normalize_text(dl.artist),
                            normalize_text(dl.match.artist))
            t == similarity(normalize_text(dl.track),
                            normalize_text(dl.match.name))
        IN  /\ dl.verdict.artist_sim = a
            /\ dl.verdict.title_sim = t
            /\ dl.verdict.is_match <=>
                  \/ Geq(a, [num |-> 1, den |-> 2]) /\ Geq(t, [num |-> 1, den |-> 2])
                  \/ Geq(t, [num |-> 4, den |-> 5])

\* a resolution accepted on its title alone, the artist being below 0.5
C3_Witness ==
    /\ dl.verdict.made
    /\ dl.verdict.is_match
    /\ Lt(dl.verdict.artist_sim, [num |-> 1, den |-> 2])
    /\ Geq(dl.verdict.title_sim, [num |-> 4, den |-> 5])

\* C4: spotdl downloads a resolved track only after the verifier accepted
\* it; after a rejection the resolved track is not downloaded, yt-dlp is
\* run for the requested track and its outcome is the result.
C4_FallbackOnRejection ==
    /\ \A i \in DOMAIN dl.cmds :
          dl.cmds[i].tool = "spotdl" =>
             /\ dl.verdict.made
             /\ dl.verdict.is_match
             /\ dl.cmds[i].url = dl.match.url
    /\ dl.pc = "spotdl" => dl.verdict.made /\ dl.verdict.is_match
    /\ (dl.verdict.made /\ ~dl.verdict.is_match) =>
          /\ dl.pc \in {"ytdlp", "done"}
          /\ \A i \in DOMAIN dl.cmds : dl.cmds[i].tool # "spotdl"
          /\ dl.pc = "done" =>
                LET last == dl.cmds[Len(dl.cmds)]
                IN  /\ last.tool = "yt-dlp"
                    /\ last.artist = dl.artist
                    /\ last.track = dl.track
                    /\ dl.result = (last.returncode = 0)

\* a rejected resolution after which yt-dlp fetched the requested track
C4_Witness ==
    /\ dl.pc = "done"
    /\ dl.verdict.made
    /\ ~dl.verdict.is_match
    /\ dl.result

StoredMtime(rows, path) ==
    rows[CHOOSE i \in DOMAIN rows : rows[i].path = path].mtime

\* C5: a pass that is not forced and follows a completed pass with no
\* change of the music directory since that pass enumerated it returns the
\* same count, calls get_song_metadata for no file and writes no row.
C5_ReconcileIdempotent ==
    (pc = "open" /\ prev.clean /\ ~dirty /\ ~force) =>
        /\ total = prev.total
        /\ extracted = <<>>
        /\ added = 0
        /\ db = prev.rows

\* a second pass over an unchanged directory that holds files
C5_Witness ==
    /\ pc = "open"
    /\ prev.clean
    /\ ~dirty
    /\ ~force
    /\ total > 0

\* C6: after a completed pass, a path that was indexed and whose file was
\* gone when the pass enumerated the directory has no row, and no lookup
\* made afterwards returns it.
C6_DeletedOnDisappearance ==
    pc = "open" =>
        \A p \in get_all_paths(prev.rows) \ existing_paths :
            /\ p \notin get_all_paths(db)
            /\ p \notin get_all_paths(committed)
            /\ lookup.kind # "none" =>
                  ~(lookup.result.found /\ lookup.result.path = p)

\* a lookup, after the pass, of the artist and title of a removed file
C6_Witness ==
    /\ pc = "open"
    /\ lookup.kind = "find_match"
    /\ \E i \in DOMAIN prev.rows :
          /\ prev.rows[i].path \notin existing_paths
          /\ prev.rows[i].artist_norm = normalize_text(lookup.artist)
          /\ prev.rows[i].title_norm = normalize_text(lookup.title)

\* C7: an enumerated file is given to get_song_metadata and its row is
\* written with the file's modification time exactly when the pass is
\* forced, or the index held no row of the path, or the file's
\* modification time is greater than the stored one; else it is skipped.
C7_ReextractionRule ==
    [][(pc = "scan" /\ pc' = "scan" /\ pos' = pos + 1) =>
          LET path == audio_files[pos + 1]
              due  == \/ force
                      \/ path \notin get_all_paths(prev.rows)
                      \/ fs[path].mtime > StoredMtime(prev.rows, path)
              meta == get_song_metadata(PathInfo[path], fs[path].tags)
          IN  IF due
              THEN /\ extracted' = Append(extracted, path)
                   /\ added' = added + 1
                   /\ \E i \in DOMAIN db' :
                         /\ db'[i].path = path
                         /\ db'[i].mtime = fs[path].mtime
                         /\ db'[i].artist = meta.artist
                         /\ db'[i].title = meta.title
              ELSE /\ extracted' = extracted
                   /\ added' = added
                   /\ db' = db]_vars

\* a file with a modification time lower than the stored one was skipped
C7_Witness ==
    /\ pc = "scan"
    /\ pos > 0
    /\ ~force
    /\ extracted = <<>>
    /\ LET path == audio_files[pos]
       IN  /\ fs[path] # NoFile
           /\ path \in get_all_paths(db)
           /\ fs[path].mtime < StoredMtime(db, path)

\* C8: every row, committed or not, holds the normalized forms of its own
\* artist and title.
C8_NormalizedFields ==
    \A rows \in {db, committed} : \A i \in DOMAIN rows :
        /\ rows[i].artist_norm = normalize_text(rows[i].artist)
        /\ rows[i].title_norm = normalize_text(rows[i].title)

\* a committed row whose title and artist differ from their normal forms
C8_Witness ==
    \E i \in DOMAIN committed :
        /\ committed[i].title = SongLive
        /\ committed[i].title_norm # committed[i].title
        /\ committed[i].artist_norm # committed[i].artist

\* C9: after a completed pass the index holds one row for each enumerated
\* path and no other row, and the pass returned the number of rows.
C9_ReconcilePostcondition ==
    pc = "open" =>
        /\ existing_paths = Range(audio_files)
        /\ get_all_paths(db) = existing_paths
        /\ Len(db) = Cardinality(existing_paths)
        /\ total = Len(db)
        /\ committed = db

\* a pass that replaced the row of one path by a row of the other path,
\* as after a rename
C9_Witness ==
    /\ pc = "open"
    /\ get_all_paths(prev.rows) = {"p1"}
    /\ get_all_paths(db) = {"p2"}
    /\ total = 1

\* C10: the committed table changes only by the commit that ends a pass,
\* which stores the whole reconciled table; during a pass it stays the
\* table the pass started from, and a pass that ends before its commit
\* leaves it, and what the next connection reads, unchanged.
C10_BatchCommit ==
    [][/\ committed' # committed =>
             /\ pc = "scan"
             /\ pc' = "open"
             /\ pos = Len(audio_files)
             /\ committed' = db
             /\ get_all_paths(committed') = existing_paths
       /\ pc' = "scan" => commits' = 0 /\ committed' = prev'.rows
       /\ pc' = "open" => commits' = 1
       /\ (pc = "scan" /\ pc' = "closed") =>
             /\ committed' = committed
             /\ db' = committed]_vars

\* a pass that holds a delete and an upsert, none of them committed
C10_Witness ==
    /\ pc = "scan"
    /\ commits = 0
    /\ get_all_paths(committed) \ get_all_paths(db) # {}
    /\ get_all_paths(db) \ get_all_paths(committed) # {}
    /\ committed = prev.rows

\* C11: a file that was enumerated and is gone when the loop reaches it
\* does not end the pass with an exception: no run ends by the
\* FileNotFoundError of filepath.stat().
C11_VanishedFileNoCrash ==
    exc # "FileNotFoundError"

\* C12: after a completed pass the index holds the files whose extension
\* is a configured audio extension in any letter casing, and no other file.
C12_CaseInsensitiveExtensions ==
    pc = "open" =>
        \A p \in Present(fs) :
            p \in get_all_paths(db)
               <=> ExtFold(PathInfo[p].suffix) \in AUDIO_EXTENSIONS

\* C13: normalizing a normalized text changes nothing:
\* normalize_text(normalize_text(s)) = normalize_text(s).
C13_Idempotent ==
    nz.pc = "twice" => nz.again = nz.result

\* does the bracketed segment hold a variant keyword or a 4-digit year
ContainsVariant(seg) ==
    \E k \in 0..(Len(seg) - 1) : VariantAt(lower(seg), k)

KeptSegs(segs) == SelectSeq(segs, LAMBDA g : ~ContainsVariant(g))

\* C14: a bracketed segment is removed exactly when its content holds a
\* variant keyword or a 4-digit year; a segment without one is kept, also
\* next to a segment that holds one: the text normalizes as the text
\* without its keyword-bearing segments does.
C14_BracketedVariants ==
    nz.pc \in {"once", "twice"} =>
        nz.result = normalize_text(Compose(nz.base, KeptSegs(nz.segs), nz.tail))

\* the six keywords of the dash suffix, as the claim lists them
C15_Keywords ==
    { <<"r","e","m","a","s","t","e","r">>,
      <<"l","i","v","e">>,
      <<"a","c","o","u","s","t","i","c">>,
      <<"r","e","m","i","x">>,
      <<"a","o"," ","v","i","v","o">>,
      <<"r","e","m","a","s","t","e","r","i","z","a","d","o">> }

\* the text after the dash begins with one of the six keywords
TailIsSuffix(tail) ==
    /\ tail.dash # <<>>
    /\ \E w \in C15_Keywords : StartsAt(lower(tail.rest), 0, w)

JoinWords(a, b) ==
    IF a = <<>> THEN b ELSE IF b = <<>> THEN a ELSE a \o <<" ">> \o b

\* C15: what follows a hyphen, en-dash or em-dash is removed with the
\* dash when it begins with remaster, live, acoustic, remix, "ao vivo" or
\* "remasterizado", in any letter case; any other text after a dash,
\* variant keywords such as "radio edit" included, is kept.
C15_DashSuffix ==
    nz.pc \in {"once", "twice"} =>
        LET head == normalize_text(Compose(nz.base, nz.segs, NoTail))
        IN  IF nz.tail.dash = <<>> \/ TailIsSuffix(nz.tail)
            THEN nz.result = head
            ELSE nz.result = JoinWords(head, normalize_text(nz.tail.rest))

\* "Song - Remastered 2009" was normalized to "song"
C15_Witness ==
    /\ nz.pc = "once"
    /\ nz.base = Song
    /\ nz.segs = <<>>
    /\ nz.tail.rest = <<"R","e","m","a","s","t","e","r","e","d"," ","2","0","0","9">>
    /\ nz.result = <<"s","o","n","g">>

\* C16: the output holds only lower-case letters and digits, separated by
\* single spaces, without leading or trailing space; the empty text gives
\* the empty text.
C16_OutputAlphabet ==
    nz.pc \in {"once", "twice"} =>
        LET out == nz.result
        IN  /\ \A i \in DOMAIN out :
                  out[i] \in Range(LowerLetters) \cup Digits \cup {" "}
            /\ \A i \in DOMAIN out :
                  out[i] = " " => /\ i > 1
                                  /\ i < Len(out)
                                  /\ out[i + 1] # " "
            /\ nz.text = <<>> => out = <<>>

One == [num |-> 1, den |-> 1]

InUnit(x) == Geq(x, Zero) /\ Geq(One, x)

\* C17 as stated: similarity is within [0, 1], is 1.0 for equal strings,
\* the empty ones included, and similarity(a, b) = similarity(b, a).
C17_Symmetric ==
    sm.pc = "done" =>
        /\ InUnit(sm.ab)
        /\ InUnit(sm.ba)
        /\ sm.a = sm.b => Eq(sm.ab, One)
        /\ Eq(sm.ab, sm.ba)

\* C17, amended: similarity is within [0, 1] in both directions and is
\* 1.0 for equal strings, the empty ones included.
C17_RangeAndIdentity ==
    sm.pc = "done" =>
        /\ InUnit(sm.ab)
        /\ InUnit(sm.ba)
        /\ sm.a = sm.b => Eq(sm.ab, One)

\* two strings whose similarity depends on the order of the arguments
C17_Witness ==
    /\ sm.pc = "done"
    /\ InUnit(sm.ab)
    /\ InUnit(sm.ba)
    /\ Lt(sm.ba, sm.ab)


\* a track-number prefix: digits, then separators up to its end
IsTrackPrefix(p) ==
    /\ p # <<>>
    /\ p[1] \in Digits
    /\ p[Len(p)] \in {" ", ".", "-", "_"}
    /\ \A k \in 1..Len(p) : p[k] \in Digits \cup {" ", ".", "-", "_"}

\* a dash-like separator with white space on both sides
IsSpacedDash(sep) ==
    /\ Len(sep) >= 3
    /\ sep[1] = " "
    /\ sep[Len(sep)] = " "
    /\ \E k \in 2..(Len(sep) - 1) :
          /\ sep[k] \in {"-", "endash", "emdash"}
          /\ \A j \in 1..Len(sep) : j # k => sep[j] = " "

\* the artist and the title the tags of a file give, empty when unknown
TagArtist(tags) ==
    IF ~tags.readable THEN <<>>
    ELSE IF tags.artist # <<>> THEN tags.artist[1]
    ELSE IF tags.albumartist # <<>> THEN tags.albumartist[1]
    ELSE <<>>

TagTitle(tags) ==
    IF tags.readable /\ tags.title # <<>> THEN tags.title[1] ELSE <<>>

\* what is left of the stem of a drawn file without its track number
MdKept(m) == IF IsTrackPrefix(m.prefix) THEN <<>> ELSE m.prefix

MdSplits(m) == m.body.left # <<>> /\ IsSpacedDash(m.body.sep)

\* C18: for a file whose tags give no title the track-number prefix is
\* dropped from the stem; when the rest reads 'artist - title' its right
\* side is the title and its left side is the artist unless the tags gave
\* one, otherwise the whole rest is the title; when the tags give a title
\* the file name is not read; an artist still unknown is the name of the
\* parent directory.
C18_FilenameFallback ==
    md.pc = "done" =>
        LET known  == TagArtist(md.tags)
            rest   == MdKept(md) \o md.body.left \o md.body.sep \o md.body.right
            title  == IF TagTitle(md.tags) # <<>> THEN TagTitle(md.tags)
                      ELSE IF MdSplits(md) THEN md.body.right
                      ELSE rest
            artist == IF known # <<>> THEN known
                      ELSE IF TagTitle(md.tags) = <<>> /\ MdSplits(md)
                      THEN MdKept(md) \o md.body.left
                      ELSE md.parent
        IN  md.result = [artist |-> artist, title |-> title]

\* a numbered 'artist - title' file without tags has been read
C18_Witness ==
    /\ md.pc = "done"
    /\ ~md.tags.readable
    /\ md.stem = <<"0","1",".">> \o Abba \o <<" ","endash"," ">> \o Song
    /\ md.result = [artist |-> Abba, title |-> Song]


\* the artist and the title the names of the files alone give
NameOnly ==
    [p1 |-> [artist |-> Abba, title |-> Song],
     p2 |-> [artist |-> Blur, title |-> Cafe]]

\* C19: a file whose tags cannot be read makes no error: while such a
\* file is the next of the pass nothing but the user's interrupt ends the
\* pass, and once the pass has gone over it the file is indexed, with the
\* artist and the title of its name when it was read in this pass.
C19_TagFailureSilent ==
    [][(/\ pc = "scan"
        /\ pos < Len(audio_files)
        /\ fs[audio_files[pos + 1]] # NoFile
        /\ ~fs[audio_files[pos + 1]].tags.readable) =>
          LET path == audio_files[pos + 1]
          IN  /\ pc' = "closed" => exc' = "KeyboardInterrupt"
              /\ pos' = pos + 1 =>
                    /\ pc' = "scan"
                    /\ path \in get_all_paths(db')
                    /\ extracted' # extracted =>
                          \E i \in DOMAIN db' :
                             /\ db'[i].path = path
                             /\ db'[i].artist = NameOnly[path].artist
                             /\ db'[i].title = NameOnly[path].title]_vars

\* a pass over a file with unreadable tags has completed and the row of
\* the file holds the artist and the title of its name
C19_Witness ==
    /\ pc = "open"
    /\ exc = "none"
    /\ fs["p2"] # NoFile
    /\ ~fs["p2"].tags.readable
    /\ "p2" \in Range(extracted)
    /\ \E i \in DOMAIN committed :
          /\ committed[i].path = "p2"
          /\ committed[i].artist = Blur
          /\ committed[i].title = Cafe


\* the lookup the kind of query asks for, and its name
Wanted(mode, t) ==
    IF mode = "song" THEN find_match_by_title(db, t.name)
    ELSE find_match(db, t.artist, t.name)

WantedLookup(mode) ==
    IF mode = "song" THEN "find_match_by_title" ELSE "find_match"

\* C20: in check_local_matches every candidate of an artist or tag query
\* is looked up by artist and title and every candidate of a title search
\* by title alone; a candidate not yet reached has local_match None; a
\* candidate reached has had local_match assigned once, to the match, when
\* its lookup found one, and never otherwise; the number returned is the
\* number of candidates whose local_match is not None.
C20_BatchAnnotation ==
    ann.pc \in {"loop", "done"} =>
        /\ \A k \in DOMAIN ann.tracks :
              LET t == ann.tracks[k]
              IN  IF k > ann.i
                  THEN /\ t.local_match = None
                       /\ t.assigned = 0
                       /\ t.lookup = "none"
                  ELSE /\ t.lookup = WantedLookup(ann.mode)
                       /\ t.local_match = Wanted(ann.mode, t)
                       /\ t.assigned = IF Wanted(ann.mode, t) # None THEN 1
                                       ELSE 0
        /\ ann.pc = "done" =>
              /\ ann.i = Len(ann.tracks)
              /\ ann.result = Cardinality({k \in DOMAIN ann.tracks :
                                             ann.tracks[k].local_match # None})

\* a title search of two candidates returned 1: the first has no match,
\* the second matches the song of another artist
C20_Witness ==
    /\ ann.pc = "done"
    /\ ann.mode = "song"
    /\ Len(ann.tracks) = 2
    /\ ann.result = 1
    /\ ann.tracks[1].local_match = None
    /\ ann.tracks[2].local_match # None
    /\ ann.tracks[2].artist = Blur
    /\ ann.tracks[2].local_match.artist = Abba


\* the commands of the current download_with_spotdl call run with a tool
CmdsOf(tool) == {i \in DOMAIN dl.cmds : dl.cmds[i].tool = tool}

\* C21: for one requested track the resolution, the spotdl download and
\* the yt-dlp download each run at most once; a call that has returned ran
\* exactly one download, spotdl or yt-dlp, the last command of the call,
\* and its result is the success of that download: a failure is returned
\* as it is, with no further command.
C21_NoRetry ==
    /\ Cardinality(CmdsOf("spotdl save")) <= 1
    /\ Cardinality(CmdsOf("spotdl")) <= 1
    /\ Cardinality(CmdsOf("yt-dlp")) <= 1
    /\ Cardinality(CmdsOf("spotdl") \cup CmdsOf("yt-dlp")) <= 1
    /\ dl.pc = "done" =>
          /\ Cardinality(CmdsOf("spotdl save")) = 1
          /\ Cardinality(CmdsOf("spotdl") \cup CmdsOf("yt-dlp")) = 1
          /\ dl.cmds[Len(dl.cmds)].tool \in {"spotdl", "yt-dlp"}
          /\ dl.result = (dl.cmds[Len(dl.cmds)].returncode = 0)

\* the spotdl download of a verified track failed and the call returned
\* the failure
C21_Witness ==
    /\ dl.pc = "done"
    /\ ~dl.result
    /\ Len(dl.cmds) = 2
    /\ dl.cmds[2].tool = "spotdl"
    /\ dl.cmds[2].returncode = 1


C23_RunOrder ==
    /\ [](~mn.no_db =>
            /\ mn.pc \notin {"idle", "init"} =>
                  /\ total # -1
                  /\ committed = db
                  /\ pc # "scan"
            /\ mn.pc \in {"counted", "select", "mkdir", "download", "end"} =>
                  /\ ann.pc = "done"
                  /\ ann.i = Len(ann.tracks)
                  /\ Len(ann.tracks) = Len(mn.answer)
                  /\ \A k \in DOMAIN mn.tracks : mn.tracks[k].lookup # "none"
                  /\ pc = "closed"
            /\ mn.calls # <<>> =>
                  /\ mn.yes \/ mn.selected
                  /\ mn.mkdir)
    /\ [][(~mn.no_db /\ mn.calls # <<>>) =>
              /\ db' = db
              /\ committed' = committed
              /\ pc' = "closed"
              /\ lookup' = lookup
              /\ ann' = ann]_vars

\* a run with the index enabled has ended after the user selected a track
\* and it was downloaded, one track of the answer having a local match
C23_Witness ==
    /\ ~mn.no_db
    /\ mn.pc = "end"
    /\ mn.selected
    /\ Len(mn.calls) = 1
    /\ mn.local_count = 1
    /\ Len(mn.answer) = 2


\* C24: a run with --dry-run, with or without --yes, never reaches the
\* selection, the creation of the output directory or a download; when it
\* has ended with tracks it has listed every track.
C24_DryRun ==
    mn.dry_run =>
        /\ mn.pc \notin {"select", "mkdir", "download"}
        /\ ~mn.selected
        /\ ~mn.mkdir
        /\ mn.calls = <<>>
        /\ mn.pc = "end" =>
              /\ mn.listed
              /\ Len(mn.listing) = Len(mn.answer)
              /\ mn.tracks = IF mn.no_db THEN mn.answer ELSE ann.tracks

\* a dry run with --yes has listed two tracks and ended
C24_Witness ==
    /\ mn.dry_run
    /\ mn.yes
    /\ mn.pc = "end"
    /\ mn.listed
    /\ Len(mn.listing) = 2


\* C25: in a run with --yes and without --dry-run the selector is not
\* called; the download function is called for the tracks of the answer
\* in their order, once each, whether or not a track has a local match and
\* whether or not an earlier download failed; when the run has ended every
\* track has been passed and successes plus failures is their number.
C25_YesDownloadsAll ==
    (mn.yes /\ ~mn.dry_run) =>
        /\ ~mn.selected
        /\ Len(mn.calls) <= Len(mn.answer)
        /\ \A k \in DOMAIN mn.calls :
              /\ mn.calls[k].artist = mn.answer[k].artist
              /\ mn.calls[k].name = mn.answer[k].name
              /\ mn.calls[k].fn = IF mn.backend = "spotdl"
                                  THEN "download_with_spotdl"
                                  ELSE "download_with_ytdlp"
        /\ mn.success + Len(mn.failed) = Len(mn.calls)
        /\ mn.pc = "end" => Len(mn.calls) = Len(mn.answer)

\* the first download failed, the second, of a track with a local match,
\* was made and succeeded
C25_Witness ==
    /\ mn.yes
    /\ ~mn.dry_run
    /\ mn.pc = "end"
    /\ Len(mn.answer) = 2
    /\ mn.failed = <<mn.answer[1].name>>
    /\ mn.success = 1
    /\ mn.tracks[2].local_match # None


\* the artists of the call for which a request was sent to Last.fm
Asked == {en.remote[j].k : j \in DOMAIN en.remote}

\* C26: when enrich_database_with_tags has returned, with force every
\* artist of the index was asked for at Last.fm, cached or not; without
\* force no artist cached before the call was asked for; and every artist
\* of the index has an entry in the cache.
C26_ForceRefetches ==
    en.pc = "done" =>
        /\ en.force => \A k \in DOMAIN en.artists : k \in Asked
        /\ ~en.force =>
              \A k \in DOMAIN en.artists :
                 en.artists[k][1] \in DOMAIN en.cached0 => k \notin Asked
        /\ \A i \in DOMAIN db : db[i].artist_norm \in DOMAIN artist_tags


\* C27: after a pass that was not forced, over a music directory that did
\* not change while it ran, every row the index held before the pass whose
\* file is present with a modification time not above the stored one is in
\* the index as it was, field by field; and no step of a pass changes the
\* cached artist tags.
C27_ReconcileFrame ==
    /\ []((pc = "open" /\ ~force /\ ~dirty) =>
            \A k \in DOMAIN prev.rows :
               LET row == prev.rows[k]
               IN  (fs[row.path] # NoFile /\ fs[row.path].mtime <= row.mtime)
                      => \E i \in DOMAIN committed : committed[i] = row)
    /\ [][(pc = "scan" \/ pc' = "scan") => artist_tags' = artist_tags]_vars

\* an unforced pass has kept the row of a file that was rewritten without
\* a newer modification time and whose tags now read otherwise
C27_Witness ==
    /\ pc = "open"
    /\ ~force
    /\ ~dirty
    /\ artist_tags # <<>>
    /\ \E k \in DOMAIN prev.rows :
          LET row  == prev.rows[k]
              meta == get_song_metadata(PathInfo[row.path], fs[row.path].tags)
          IN  /\ fs[row.path] # NoFile
              /\ fs[row.path].mtime <= row.mtime
              /\ meta.title # row.title
              /\ \E i \in DOMAIN committed : committed[i] = row


(***************************************************************************)
(* Properties of interactive_select                                        *)
(***************************************************************************)
\* C28: for a list that is not empty, whatever the size of the terminal and
\* the keys pressed, the cursor stays within 0..len(tracks)-1, every
\* selected index is an index of tracks, and building tracks[i] for the
\* selected indices does not fail.
C28_IndexBounds ==
    ui.pc # "idle" =>
       /\ ui.cursor \in 0..(ui.n - 1)
       /\ ui.selected \subseteq 0..(ui.n - 1)
       /\ ui.error # "IndexError"

\* C29: at most one preview child of the selector runs at any time and it
\* is the one whose handle is held; playing_idx is set exactly when a handle
\* is held; a new preview is started only after the one before it was
\* stopped; after a return by q, ESC or ENTER no preview runs.
C29_PreviewDiscipline ==
    /\ [](/\ Cardinality(ui.procs) <= 1
          /\ ui.procs \subseteq {ui.preview_proc}
          /\ (ui.playing_idx # <<>>) <=> (ui.preview_proc # 0)
          /\ (ui.pc = "returned" /\ ui.via \in {"quit", "enter"})
                => ui.procs = {})
    /\ [][(ui'.preview_proc # 0 /\ ui'.preview_proc # ui.preview_proc)
             => ui.preview_proc \notin ui'.procs]_vars

\* two previews were started and the selector was then left by q, ESC or
\* ENTER with no preview running
C29_Witness ==
    /\ ui.pc = "returned"
    /\ ui.via \in {"quit", "enter"}
    /\ ui.spawned = 2
    /\ ui.keys = 3
    /\ ui.procs = {}

\* the selection the selector starts with
InitialSelection(has_local) ==
    {i \in 0..(Len(has_local) - 1) : ~has_local[i + 1]}

\* C30: the selection starts as the tracks without a local match; ENTER
\* returns the tracks selected at that moment, each once and in the order of
\* the list; q and ESC return the empty list; only space, a and n change
\* the selection.
C30_SelectionResult ==
    /\ []((ui.pc = "loop" /\ ui.keys = 0)
             => ui.selected = InitialSelection(ui.has_local))
    /\ [][/\ (ui.pc = "loop" /\ ui'.key = "enter" /\ ui'.keys # ui.keys)
                => /\ ui'.pc = "returned"
                   /\ {ui'.result[i] : i \in DOMAIN ui'.result} = ui.selected
                   /\ \A i, j \in DOMAIN ui'.result :
                         i < j => ui'.result[i] < ui'.result[j]
          /\ (ui.pc = "loop" /\ ui'.key \in {"q", "esc"}
                             /\ ui'.keys # ui.keys)
                => (ui'.pc = "returned" /\ ui'.result = <<>>)
          /\ (ui.pc = "loop" /\ ui'.selected # ui.selected)
                => ui'.key \in {"space", "a", "n"}]_vars

====
